---------------------------- MODULE Spec2Model ----------------------------
(***************************************************************************)
(* Resource handlers of the azurerm Terraform provider, modelled as state  *)
(* machines over the Terraform resource data (d), the remote API and the   *)
(* result each handler returns.  One sub-system per resource; `sys` names  *)
(* the sub-system a behaviour is about.                                    *)
(***************************************************************************)
EXTENDS Integers, Sequences, FiniteSets, TLC

VARIABLES
    sys,        \* the resource a behaviour exercises
    \* azurerm_kubernetes_maintenance_configuration
    kmcCfg,     \* the configuration Terraform hands to Create/Update
    kmcD,       \* the ResourceData: id and attributes in state
    kmcApi,     \* the maintenance configuration held by the API
    kmcCluster, \* whether the parent cluster exists
    kmcSent,    \* the bodies sent with CreateOrUpdate, in order
    kmcCalls,   \* the answers the API gave during the last handler
    kmcOp,      \* the last handler that ran
    kmcRes,     \* what that handler returned
    \* resource ID parsers and validators
    idKind,     \* which ID the input is parsed as
    idVals,     \* the values the ID was formatted from
    idInput,    \* the input string, as its "/"-separated pieces
    idEdits,    \* how many edits the input went through
    idOut,      \* the parser's or validator's answer
    \* azurerm_cosmosdb_role_assignment
    cosCfg,     \* the configuration of the resource being created
    cosD,       \* its ResourceData
    cosApi,     \* the role assignments the account holds
    cosPre,     \* the role assignments it held before the last handler
    cosCalls,   \* the API calls of the last handler, with their answers
    cosOp,      \* the last handler that ran
    cosRes,     \* what it returned
    cosSteps,   \* how many handlers ran
    \* azurerm_chaos_target
    chCfg,      \* the configuration
    chD,        \* the ResourceData: id and the encoded model
    chApi,      \* the target the API holds
    chCalls,    \* the API calls of the last handler, with their answers
    chOp,       \* the last handler that ran
    chRes,      \* what it returned
    chSteps,    \* how many handlers ran
    chOrigin,   \* how the resource came into state: by Create or by import
    \* azurerm_function_app_host_keys
    hkCfg,      \* the configured host_keys map
    hkOld,      \* the host_keys map of the prior state, as the last handler saw it
    hkD,        \* the ResourceData: id, primary_key, host_keys
    hkApi,      \* the master key and the function keys the app holds
    hkCalls,    \* the API calls of the last handler, with their answers
    hkOp,       \* the last handler that ran
    hkRes,      \* what it returned
    hkSteps,    \* how many handlers ran
    \* azurerm_automation_powershell72_module
    psD,        \* the ResourceData: id and attributes
    psApi,      \* the module the automation account holds
    psCalls,    \* the API calls of the running or last handler, with their answers
    psPc,       \* where the running handler stands
    psOp,       \* the running or last handler
    psRes,      \* what the last handler returned
    psOps,      \* how many handlers were started
    \* azurerm_firewall_policy, handlers running concurrently
    fwPc,       \* per operation: where it stands
    fwOp,       \* per operation: the handler it runs
    fwName,     \* per operation: the policy name of its resource
    fwD,        \* per operation: the id in its ResourceData
    fwRes,      \* per operation: what its last handler returned
    fwCalls,    \* per operation: the API calls of its running or last handler
    fwRuns,     \* per operation: how many handlers it started
    fwLocks,    \* the names locked, each with the operation holding it
    fwApi       \* the names of the policies that exist

kmcVars == <<kmcCfg, kmcD, kmcApi, kmcCluster, kmcSent, kmcCalls, kmcOp, kmcRes>>

idVars == <<idKind, idVals, idInput, idEdits, idOut>>

cosVars == <<cosCfg, cosD, cosApi, cosPre, cosCalls, cosOp, cosRes, cosSteps>>
chVars == <<chCfg, chD, chApi, chCalls, chOp, chRes, chSteps, chOrigin>>

hkVars == <<hkCfg, hkOld, hkD, hkApi, hkCalls, hkOp, hkRes, hkSteps>>
psVars == <<psD, psApi, psCalls, psPc, psOp, psRes, psOps>>
fwVars == <<fwPc, fwOp, fwName, fwD, fwRes, fwCalls, fwRuns, fwLocks, fwApi>>

vars == <<sys, kmcVars, idVars, cosVars, chVars, hkVars, psVars, fwVars>>

(***************************************************************************)
(* Shared helpers                                                          *)
(***************************************************************************)

\* The elements of a finite set of records/values as a sequence, one order
\* per set (Set.List() returns the items in the order of their hash codes).
RECURSIVE SetList(_)
SetList(S) ==
    IF S = {} THEN <<>>
    ELSE LET x == CHOOSE y \in S : TRUE
         IN  <<x>> \o SetList(S \ {x})

Range(s) == {s[i] : i \in 1..Len(s)}

(***************************************************************************)
(* Resource IDs.  A string is modelled by the sequence of the pieces that  *)
(* strings.Split(s, "/") yields: "" is <<"">>, "/" is <<"", "">>,          *)
(* "/subscriptions/" is <<"", "subscriptions", "">>.  A value put into a   *)
(* format string is such a sequence too (<<"a", "b">> is "a/b").           *)
(***************************************************************************)

\* fmt.Sprintf("/k1/%s/k2/%s...", v1, v2, ...): keys and values, joined by "/".
RECURSIVE JoinPairs(_, _)
JoinPairs(keys, values) ==
    IF keys = <<>> THEN <<>>
    ELSE <<Head(keys)>> \o Head(values) \o JoinPairs(Tail(keys), Tail(values))

\* A map[string]string as a set of <<key, value>> pairs, one per key.
PathPut(path, k, v) == {p \in path : p[1] # k} \cup {<<k, v>>}
PathHas(path, k) == \E p \in path : p[1] = k
PathGet(path, k) == (CHOOSE p \in path : p[1] = k)[2]
PathDelete(path, k) == {p \in path : p[1] # k}

\* url.ParseRequestURI: rejects the empty string and a string that does not
\* start with "/".
ParseRequestURIFails(input) == input = <<"">> \/ input[1] # ""

\* strings.TrimPrefix(path, "/") then strings.TrimSuffix(path, "/") then
\* strings.Split(path, "/").
TrimAndSplit(input) ==
    LET noPrefix == Tail(input)
    IN  IF Len(noPrefix) >= 2 /\ noPrefix[Len(noPrefix)] = ""
        THEN SubSeq(noPrefix, 1, Len(noPrefix) - 1)
        ELSE noPrefix

\* The loop of ParseAzureResourceID over the key/value pairs: the first
\* "subscriptions" and the first "providers" are kept apart, every other pair
\* goes into the map (a later pair with the same key overwrites).
RECURSIVE ParseComponents(_, _, _)
ParseComponents(components, current, acc) ==
    IF current > Len(components) THEN acc
    ELSE IF components[current] = "" \/ components[current + 1] = ""
    THEN [acc EXCEPT !.err = TRUE]
    ELSE IF components[current] = "subscriptions" /\ acc.SubscriptionID = ""
    THEN ParseComponents(components, current + 2,
                         [acc EXCEPT !.SubscriptionID = components[current + 1]])
    ELSE IF components[current] = "providers" /\ acc.Provider = ""
    THEN ParseComponents(components, current + 2,
                         [acc EXCEPT !.Provider = components[current + 1]])
    ELSE ParseComponents(components, current + 2,
                         [acc EXCEPT !.Path = PathPut(acc.Path, components[current],
                                                      components[current + 1])])

NoResourceID ==
    [err |-> TRUE, SubscriptionID |-> "", ResourceGroup |-> "", Provider |-> "",
     Path |-> {}]

\* The end of ParseAzureResourceID: no subscription is an error; the
\* resource group is taken out of the map, under either spelling of its key.
BuildResourceID(acc) ==
    IF acc.err \/ acc.SubscriptionID = "" THEN NoResourceID
    ELSE IF PathHas(acc.Path, "resourceGroups")
    THEN [acc EXCEPT !.ResourceGroup = PathGet(acc.Path, "resourceGroups"),
                     !.Path = PathDelete(acc.Path, "resourceGroups")]
    ELSE IF PathHas(acc.Path, "resourcegroups")
    THEN [acc EXCEPT !.ResourceGroup = PathGet(acc.Path, "resourcegroups"),
                     !.Path = PathDelete(acc.Path, "resourcegroups")]
    ELSE acc

\* azure.ParseAzureResourceID.
ParseAzureResourceID(input) ==
    IF ParseRequestURIFails(input) THEN NoResourceID
    ELSE IF Len(TrimAndSplit(input)) % 2 # 0 THEN NoResourceID
    ELSE BuildResourceID(ParseComponents(TrimAndSplit(input), 1,
                                         [NoResourceID EXCEPT !.err = FALSE]))

NoTwoSegmentID ==
    [err |-> TRUE, SubscriptionId |-> "", ResourceGroup |-> "", First |-> "",
     Second |-> ""]

\* The body of a generated parser for a resource-group-scoped ID with two
\* named segments, after ParseAzureResourceID: the two emptiness checks,
\* PopSegment for each name, ValidateNoEmptySegments.
PopTwoSegments(id, first, second) ==
    IF id.err THEN NoTwoSegmentID
    ELSE IF id.SubscriptionID = "" THEN NoTwoSegmentID
    ELSE IF id.ResourceGroup = "" THEN NoTwoSegmentID
    ELSE IF ~PathHas(id.Path, first) THEN NoTwoSegmentID
    ELSE IF ~PathHas(PathDelete(id.Path, first), second) THEN NoTwoSegmentID
    ELSE IF PathDelete(PathDelete(id.Path, first), second) # {} THEN NoTwoSegmentID
    ELSE [err |-> FALSE, SubscriptionId |-> id.SubscriptionID,
          ResourceGroup |-> id.ResourceGroup,
          First |-> PathGet(id.Path, first),
          Second |-> PathGet(id.Path, second)]

\* SqlRoleAssigmentId.ID()
SqlRoleAssigmentIdID(id) ==
    <<"">> \o JoinPairs(<<"subscriptions", "resourceGroups", "providers",
                          "databaseAccounts", "sqlRoleAssignments">>,
                        <<id.SubscriptionId, id.ResourceGroup, <<"Microsoft.DocumentDB">>,
                          id.DatabaseAccountName, id.SqlRoleAssignmentName>>)

SqlRoleAssigmentIdOf(r) ==
    [err |-> r.err, SubscriptionId |-> r.SubscriptionId,
     ResourceGroup |-> r.ResourceGroup, DatabaseAccountName |-> r.First,
     SqlRoleAssignmentName |-> r.Second]

\* parse.SqlRoleAssigmentID
SqlRoleAssigmentID(input) ==
    SqlRoleAssigmentIdOf(PopTwoSegments(ParseAzureResourceID(input),
                                        "databaseAccounts", "sqlRoleAssignments"))

\* ManagedInstanceAzureActiveDirectoryAdministratorId.ID()
ManagedInstanceAzureActiveDirectoryAdministratorIdID(id) ==
    <<"">> \o JoinPairs(<<"subscriptions", "resourceGroups", "providers",
                          "managedInstances", "administrators">>,
                        <<id.SubscriptionId, id.ResourceGroup, <<"Microsoft.Sql">>,
                          id.ManagedInstanceName, id.AdministratorName>>)

ManagedInstanceAzureActiveDirectoryAdministratorIdOf(r) ==
    [err |-> r.err, SubscriptionId |-> r.SubscriptionId,
     ResourceGroup |-> r.ResourceGroup, ManagedInstanceName |-> r.First,
     AdministratorName |-> r.Second]

\* A parser that pops the two named segments into each other's field.
ManagedInstanceAzureActiveDirectoryAdministratorID_Crossed(input) ==
    ManagedInstanceAzureActiveDirectoryAdministratorIdOf(
        PopTwoSegments(ParseAzureResourceID(input),
                       "administrators", "managedInstances"))

\* parse.ManagedInstanceAzureActiveDirectoryAdministratorID
ManagedInstanceAzureActiveDirectoryAdministratorID(input) ==
    ManagedInstanceAzureActiveDirectoryAdministratorIdOf(
        PopTwoSegments(ParseAzureResourceID(input),
                       "managedInstances", "administrators"))

NoScheduledActionID == [err |-> TRUE, SubscriptionId |-> "", ScheduledActionName |-> ""]

\* The body of the parser of a subscription-scoped ID with one named
\* segment, after ParseAzureResourceID.
PopScheduledAction(id) ==
    IF id.err THEN NoScheduledActionID
    ELSE IF id.SubscriptionID = "" THEN NoScheduledActionID
    ELSE IF ~PathHas(id.Path, "scheduledActions") THEN NoScheduledActionID
    ELSE IF PathDelete(id.Path, "scheduledActions") # {} THEN NoScheduledActionID
    ELSE [err |-> FALSE, SubscriptionId |-> id.SubscriptionID,
          ScheduledActionName |-> PathGet(id.Path, "scheduledActions")]

\* parse.SubscriptionCostManagementScheduledActionID
ParseSubscriptionCostManagementScheduledActionID(input) ==
    PopScheduledAction(ParseAzureResourceID(input))

\* A validator that only asks whether the input is an Azure resource ID.
SubscriptionCostManagementScheduledActionID_AnyResourceID(input) ==
    IF ParseAzureResourceID(input).err THEN 1 ELSE 0

\* validate.SubscriptionCostManagementScheduledActionID: the number of
\* errors reported for a string input.
SubscriptionCostManagementScheduledActionID(input) ==
    IF ParseSubscriptionCostManagementScheduledActionID(input).err THEN 1 ELSE 0

(***************************************************************************)
(* azurerm_kubernetes_maintenance_configuration                            *)
(***************************************************************************)

MaxUpdates == 2

Days == {"Monday", "Friday"}
HourSlotValues == {4}
Windows == {[start |-> "2021-05-26T03:00:00Z", end |-> "2021-05-30T12:00:00Z"]}

KmcName == "internal"
KmcClusterId == "/subscriptions/sub/resourceGroups/rg/providers/Microsoft.ContainerService/managedClusters/aks"
KmcId == "/subscriptions/sub/resourceGroups/rg/providers/Microsoft.ContainerService/managedClusters/aks/maintenanceConfigurations/internal"

\* maintenance_allowed is a TypeSet hashed by resourceTimeInWeekHash, that is
\* by "day" alone: a set holds at most one entry per day.  MinItems is 1.
AllowedSets ==
    {S \in SUBSET [day : Days, hour_slots : SUBSET HourSlotValues] :
        /\ S # {}
        /\ \A a, b \in S : a.day = b.day => a = b}

KmcConfigs ==
    [maintenance_allowed : AllowedSets,
     maintenance_not_allowed_window : SUBSET Windows]

\* The schema's attribute names.
KmcSchemaKeys ==
    {"name", "kubernetes_cluster_id", "maintenance_allowed",
     "maintenance_not_allowed_window"}

KmcNoAttrs ==
    [name |-> "", kubernetes_cluster_id |-> "",
     maintenance_allowed |-> {}, maintenance_not_allowed_window |-> {}]

\* The attributes the plan puts into d before Create/Update runs.
KmcPlanned(cfg) ==
    [name |-> KmcName, kubernetes_cluster_id |-> KmcClusterId,
     maintenance_allowed |-> cfg.maintenance_allowed,
     maintenance_not_allowed_window |-> cfg.maintenance_not_allowed_window]

KmcApiNone ==
    [exists |-> FALSE, hasProps |-> FALSE, TimeInWeek |-> <<>>,
     NotAllowedTime |-> <<>>]

\* expandTimeInWeek: one TimeInWeek per set entry, its slots copied, its Day
\* the constant WeekDayFriday.
expandTimeInWeek(input) ==
    LET l == SetList(input)
    IN  [i \in 1..Len(l) |->
            [Day |-> "Friday", HourSlots |-> SetList(l[i].hour_slots)]]

\* expandNotAllowedTime: parses start and end (RFC3339) into times.
expandNotAllowedTime(input) ==
    LET l == SetList(input)
    IN  [i \in 1..Len(l) |-> [Start |-> l[i].start, End |-> l[i].end]]

\* flattenTimeInWeek: skips elements without a day or without slots; every
\* other element is added to a Set whose hash function asserts that the
\* "day" value is a string, while it is a containerservice.WeekDay: the
\* assertion panics on the first element added.
flattenTimeInWeek(input) ==
    LET kept == SelectSeq(input, LAMBDA e : ~(e.Day = "" \/ Len(e.HourSlots) = 0))
    IN  [panic |-> kept # <<>>,
         set   |-> {[day |-> kept[i].Day, slots |-> kept[i].HourSlots] :
                        i \in 1..Len(kept)}]

\* flattenNotAllowedTime: every element is added to a Set whose hash
\* function is HashString, which asserts its argument is a string, while it
\* is a map: the assertion panics on the first element added.
flattenNotAllowedTime(input) ==
    [panic |-> input # <<>>,
     set   |-> {[start |-> input[i].Start, end |-> input[i].End] :
                    i \in 1..Len(input)}]

\* d.Set(key, value): an error for a key the schema does not declare.
KmcDSetOk(key) == key \in KmcSchemaKeys

\* resourceKubernetesMaintenanceConfigurationRead on d, with the outcomes of
\* the two Get calls (200, 404 or another failure).  Yields the new d and
\* the result.
KmcReadOutcome(d, api, clusterGet, mcGet) ==
    IF clusterGet = "404" THEN [d |-> [d EXCEPT !.id = ""], res |-> "ok"]
    ELSE IF clusterGet = "err" THEN [d |-> d, res |-> "error"]
    ELSE IF mcGet = "404" THEN [d |-> [d EXCEPT !.id = ""], res |-> "ok"]
    ELSE IF mcGet = "err" THEN [d |-> d, res |-> "error"]
    ELSE
      LET d1 == [d EXCEPT !.attrs.name = KmcName,
                          !.attrs.kubernetes_cluster_id = KmcClusterId]
          tiw == flattenTimeInWeek(api.TimeInWeek)
          nat == flattenNotAllowedTime(api.NotAllowedTime)
      IN  IF ~api.hasProps THEN [d |-> d1, res |-> "ok"]
          ELSE IF tiw.panic THEN [d |-> d1, res |-> "panic"]
          ELSE IF ~KmcDSetOk("maintenace_allowed") THEN [d |-> d1, res |-> "error"]
          ELSE IF nat.panic THEN [d |-> d1, res |-> "panic"]
          ELSE IF ~KmcDSetOk("maintenace_not_allowed_window")
               THEN [d |-> d1, res |-> "error"]
          ELSE [d |-> d1, res |-> "ok"]

\* The object the API holds for a maintenance configuration that was created
\* with cfg: every entry's day and hour slots, every window's start and end.
KmcRemoteOf(cfg) ==
    LET a == SetList(cfg.maintenance_allowed)
        w == SetList(cfg.maintenance_not_allowed_window)
    IN  [exists |-> TRUE, hasProps |-> TRUE,
         TimeInWeek |-> [i \in 1..Len(a) |->
                            [Day |-> a[i].day, HourSlots |-> SetList(a[i].hour_slots)]],
         NotAllowedTime |-> [i \in 1..Len(w) |-> [Start |-> w[i].start, End |-> w[i].end]]]

\* What a Get answers for the state of the API: a present object answers 200
\* or fails, an absent one answers 404 or fails.
GetAnswers(present) == IF present THEN {"200", "err"} ELSE {"404", "err"}

\* What the handlers of this resource leave alone.
KmcFrame == UNCHANGED <<sys, idVars, cosVars, chVars, hkVars, psVars, fwVars>>

KmcInit ==
    /\ kmcCfg \in KmcConfigs
    /\ kmcD = [id |-> "", attrs |-> KmcNoAttrs]
    /\ kmcCluster \in BOOLEAN
    /\ kmcApi \in {KmcApiNone, KmcRemoteOf(kmcCfg),
                   [KmcApiNone EXCEPT !.exists = TRUE]}
    /\ kmcApi.exists => kmcCluster
    /\ kmcSent = <<>>
    /\ kmcCalls = <<>>
    /\ kmcOp = "none"
    /\ kmcRes = "none"

\* resourceKubernetesMaintenanceConfigurationCreate.  props is a
\* MaintenanceConfiguration literal whose embedded properties pointer is nil:
\* assigning props.TimeInWeek (maintenance_allowed is set) or
\* props.NotAllowedTime dereferences it.
KmcCreate ==
    /\ sys = "kmc"
    /\ kmcOp = "none"
    /\ \E clusterGet \in GetAnswers(kmcCluster), mcGet \in GetAnswers(kmcApi.exists) :
        LET d0 == [id |-> "", attrs |-> KmcPlanned(kmcCfg)]
        IN  /\ kmcOp' = "create"
            /\ kmcD' = d0
            /\ kmcRes' =
                 IF clusterGet # "200" THEN "error"
                 ELSE IF mcGet = "err" THEN "error"
                 ELSE IF mcGet = "200" THEN "import_exists"
                 ELSE IF kmcCfg.maintenance_allowed # {} THEN "panic"
                 ELSE IF kmcCfg.maintenance_not_allowed_window # {} THEN "panic"
                 ELSE "unreached"
            /\ kmcCalls' = <<clusterGet, mcGet>>
            /\ UNCHANGED <<kmcCfg, kmcApi, kmcCluster, kmcSent>>
            /\ KmcFrame

\* The importer followed by the Read Terraform runs on the imported id.
KmcImport ==
    /\ sys = "kmc"
    /\ kmcOp = "none"
    /\ \E clusterGet \in GetAnswers(kmcCluster), mcGet \in GetAnswers(kmcApi.exists) :
        LET out == KmcReadOutcome([id |-> KmcId, attrs |-> KmcNoAttrs],
                                  kmcApi, clusterGet, mcGet)
        IN  /\ kmcOp' = "import"
            /\ kmcD' = out.d
            /\ kmcRes' = out.res
            /\ kmcCalls' = <<clusterGet, mcGet>>
            /\ UNCHANGED <<kmcCfg, kmcApi, kmcCluster, kmcSent>>
            /\ KmcFrame

\* resourceKubernetesMaintenanceConfigurationUpdate on an imported resource:
\* delta patching of the existing properties, CreateOrUpdate, then Read.
KmcUpdate ==
    /\ sys = "kmc"
    /\ kmcOp \in {"import", "update", "changed"}
    /\ kmcRes = "ok"
    /\ kmcD.id # ""
    /\ Len(kmcSent) < MaxUpdates
    /\ \E cfg \in KmcConfigs, mcGet \in GetAnswers(kmcApi.exists),
          put \in {"200", "err"}, clusterGet \in GetAnswers(kmcCluster) :
        LET d0 == [id |-> kmcD.id, attrs |-> KmcPlanned(cfg)]
            chgAllowed == cfg.maintenance_allowed # kmcD.attrs.maintenance_allowed
            chgWindow == cfg.maintenance_not_allowed_window
                             # kmcD.attrs.maintenance_not_allowed_window
            nilProps == ~kmcApi.hasProps
            body == [TimeInWeek |-> IF chgAllowed
                                    THEN expandTimeInWeek(cfg.maintenance_allowed)
                                    ELSE kmcApi.TimeInWeek,
                     NotAllowedTime |-> IF chgWindow
                                    THEN expandNotAllowedTime(cfg.maintenance_not_allowed_window)
                                    ELSE kmcApi.NotAllowedTime]
            api1 == [exists |-> TRUE, hasProps |-> TRUE,
                     TimeInWeek |-> body.TimeInWeek,
                     NotAllowedTime |-> body.NotAllowedTime]
            out == KmcReadOutcome(d0, api1, clusterGet, "200")
        IN  /\ kmcOp' = "update"
            /\ kmcCfg' = cfg
            /\ IF mcGet # "200"
               THEN /\ kmcRes' = "error"
                    /\ kmcD' = d0
                    /\ UNCHANGED <<kmcApi, kmcSent>>
               ELSE IF nilProps /\ (chgAllowed \/ chgWindow)
               THEN /\ kmcRes' = "panic"
                    /\ kmcD' = d0
                    /\ UNCHANGED <<kmcApi, kmcSent>>
               ELSE IF put = "err"
               THEN /\ kmcRes' = "error"
                    /\ kmcD' = d0
                    /\ kmcSent' = Append(kmcSent, body)
                    /\ UNCHANGED kmcApi
               ELSE /\ kmcSent' = Append(kmcSent, body)
                    /\ kmcApi' = IF nilProps THEN kmcApi ELSE api1
                    /\ LET o == IF nilProps
                                THEN KmcReadOutcome(d0, kmcApi, clusterGet, "200")
                                ELSE out
                       IN  kmcD' = o.d /\ kmcRes' = o.res
            /\ kmcCalls' = <<mcGet, put, clusterGet>>
            /\ UNCHANGED kmcCluster
            /\ KmcFrame

\* The maintenance configuration is given its windows outside Terraform,
\* after the state was written: the Get of the next Update finds them.
KmcChangedRemotely ==
    /\ sys = "kmc"
    /\ kmcOp \in {"import", "update"}
    /\ kmcRes = "ok"
    /\ kmcD.id # ""
    /\ ~kmcApi.hasProps
    /\ \E cfg \in KmcConfigs : kmcApi' = KmcRemoteOf(cfg)
    /\ kmcOp' = "changed"
    /\ UNCHANGED <<kmcCfg, kmcD, kmcCluster, kmcSent, kmcCalls, kmcRes>>
    /\ KmcFrame

KmcNext == KmcCreate \/ KmcImport \/ KmcUpdate \/ KmcChangedRemotely

\* The test's scenario: the cluster exists, no call fails, and the
\* configuration holds both blocks.
KmcBothBlocks ==
    /\ kmcCfg.maintenance_not_allowed_window # {}
    /\ \E a \in kmcCfg.maintenance_allowed : a.hour_slots # {}

KmcHealthyCreate ==
    kmcOp = "create" /\ kmcCalls = <<"200", "404">> /\ KmcBothBlocks

KmcHealthyImport ==
    /\ kmcOp = "import" /\ kmcCalls = <<"200", "200">> /\ KmcBothBlocks
    /\ kmcApi = KmcRemoteOf(kmcCfg)

\* C1: after the resource is created with a maintenance_allowed block and a
\* maintenance_not_allowed_window block, the Read that follows (in Create,
\* and again on import) succeeds and leaves in state the configured
\* maintenance_allowed and maintenance_not_allowed_window.
C1_ReadRoundTrip ==
    (KmcHealthyCreate \/ KmcHealthyImport) =>
        /\ kmcRes = "ok"
        /\ kmcD.id = KmcId
        /\ kmcD.attrs.maintenance_allowed = kmcCfg.maintenance_allowed
        /\ kmcD.attrs.maintenance_not_allowed_window
               = kmcCfg.maintenance_not_allowed_window

\* The last Update sent its CreateOrUpdate.
KmcUpdateSent ==
    /\ kmcOp = "update"
    /\ Len(kmcCalls) = 3
    /\ kmcCalls[1] = "200"
    /\ kmcRes # "panic"
    /\ Len(kmcSent) >= 1

\* C13: the TimeInWeek that an Update sends holds one element for every
\* maintenance_allowed entry of the configuration, with the entry's day and
\* exactly its hour_slots.  (Every Update of this model that sends changes
\* maintenance_allowed: the state it starts from holds no entry.)
C13_SentTimeInWeekAsConfigured ==
    KmcUpdateSent =>
        /\ Len(kmcSent[Len(kmcSent)].TimeInWeek) = Cardinality(kmcCfg.maintenance_allowed)
        /\ \A a \in kmcCfg.maintenance_allowed :
              \E e \in Range(kmcSent[Len(kmcSent)].TimeInWeek) :
                  /\ e.Day = a.day
                  /\ Range(e.HourSlots) = a.hour_slots

(***************************************************************************)
(* azurerm_cosmosdb_role_assignment                                        *)
(***************************************************************************)

MaxCosSteps == 2

CosNames == {"ra1", "ra2"}
CosGeneratedName == "generated-uuid"
\* The call of a handler that fails, if one does: the handler returns at its
\* first failure.
CosFailures == {"none", "uuid", "list", "nil", "put", "wait", "get"}
\* The role definitions ListSQLRoleDefinitions answers with.
CosRoleDefinitions == {[RoleName |-> "Contributor", ID |-> "rd1"]}

CosConfigs ==
    {c \in [name : CosNames \cup {""},
            role_definition_id : {"", "rd1"},
            role_definition_name : {"", "Contributor", "Reader"},
            scope : {"scope1"},
            principal_id : {"p1", "p2"}] :
        \* ConflictsWith
        ~(c.role_definition_id # "" /\ c.role_definition_name # "")}

CosNoD ==
    [id |-> <<"">>,
     attrs |-> [name |-> "", scope |-> "", principal_id |-> "",
                role_definition_id |-> ""]]

CosHas(api, name) == \E r \in api : r.Name = name
CosGet(api, name) == CHOOSE r \in api : r.Name = name
CosPut(api, r) == {x \in api : x.Name # r.Name} \cup {r}

\* resourceCosmosDbRoleAssignmentRead with the answer of GetSQLRoleAssignment.
CosSetFrom(d, resp) ==
    [d EXCEPT !.attrs.name = resp.Name,
              !.attrs.scope = resp.Scope,
              !.attrs.principal_id = resp.PrincipalID,
              !.attrs.role_definition_id = resp.RoleDefinitionID]

CosReadParsed(d, api, get, id) ==
    IF id.err THEN [d |-> d, res |-> "error", calls |-> <<>>]
    ELSE IF get # "200" \/ ~CosHas(api, id.SqlRoleAssignmentName)
    THEN [d |-> d, res |-> "error", calls |-> <<<<"Get", get>>>>]
    ELSE [d |-> CosSetFrom(d, CosGet(api, id.SqlRoleAssignmentName)),
          res |-> "ok", calls |-> <<<<"Get", get>>>>]

CosReadOutcome(d, api, get) == CosReadParsed(d, api, get, SqlRoleAssigmentID(d.id))

CosInit ==
    /\ cosCfg \in CosConfigs
    /\ cosD = CosNoD
    /\ cosApi \in SUBSET {[Name |-> n, Scope |-> "scope1", PrincipalID |-> "p1",
                           RoleDefinitionID |-> "rd1"] : n \in CosNames}
    /\ cosPre = cosApi
    /\ cosCalls = <<>>
    /\ cosOp = "none"
    /\ cosRes = "none"
    /\ cosSteps = 0

CosFrame == UNCHANGED <<sys, kmcVars, idVars, chVars, hkVars, psVars, fwVars>>

\* resourceCosmosDbRoleAssignmentCreateUpdate (Create): the name or a
\* generated UUID, the role definition by id or looked up by name,
\* CreateUpdateSQLRoleAssignment, the wait, SetId and Read.
CosCreate ==
    /\ sys = "cosmos"
    /\ cosSteps < MaxCosSteps
    /\ \E cfg \in CosConfigs, fail \in CosFailures :
        LET uuid == IF fail = "uuid" THEN "err" ELSE "ok"
            list == IF fail = "list" THEN "err" ELSE IF fail = "nil" THEN "nil" ELSE "200"
            put == IF fail = "put" THEN "err" ELSE "200"
            wait == IF fail = "wait" THEN "err" ELSE "200"
            get == IF fail = "get" THEN "err" ELSE "200"
        IN
        LET name == IF cfg.name = "" THEN CosGeneratedName ELSE cfg.name
            id == [SubscriptionId |-> <<"sub">>, ResourceGroup |-> <<"rg">>,
                   DatabaseAccountName |-> <<"acct">>,
                   SqlRoleAssignmentName |-> <<name>>]
            byName == {r \in CosRoleDefinitions : r.RoleName = cfg.role_definition_name}
            roleDefinitionId ==
                IF cfg.role_definition_id # "" THEN cfg.role_definition_id
                ELSE IF byName # {} THEN (CHOOSE r \in byName : TRUE).ID
                ELSE ""
            d0 == [CosNoD EXCEPT !.attrs.name = cfg.name,
                                 !.attrs.scope = cfg.scope,
                                 !.attrs.principal_id = cfg.principal_id,
                                 !.attrs.role_definition_id = cfg.role_definition_id]
            d1 == [d0 EXCEPT !.attrs.role_definition_id = roleDefinitionId]
            listed == cfg.role_definition_id = "" /\ cfg.role_definition_name # ""
            listCall == IF listed THEN <<<<"ListSQLRoleDefinitions", list>>>> ELSE <<>>
            body == [Name |-> name, Scope |-> cfg.scope,
                     PrincipalID |-> cfg.principal_id,
                     RoleDefinitionID |-> roleDefinitionId]
            api1 == CosPut(cosApi, body)
        IN  \E read \in {CosReadOutcome([d1 EXCEPT !.id = SqlRoleAssigmentIdID(id)],
                                         api1, get)} :
            /\ cosOp' = "create"
            /\ cosCfg' = cfg
            /\ cosPre' = cosApi
            /\ cosSteps' = cosSteps + 1
            /\ IF cfg.name = "" /\ uuid = "err"
               THEN cosRes' = "error" /\ cosD' = d0 /\ cosCalls' = <<>>
                    /\ UNCHANGED cosApi
               ELSE IF cfg.role_definition_id = "" /\ cfg.role_definition_name = ""
               THEN cosRes' = "error" /\ cosD' = d0 /\ cosCalls' = <<>>
                    /\ UNCHANGED cosApi
               ELSE IF listed /\ list # "200"
               THEN cosRes' = "error" /\ cosD' = d0 /\ cosCalls' = listCall
                    /\ UNCHANGED cosApi
               ELSE IF put = "err"
               THEN cosRes' = "error" /\ cosD' = d1
                    /\ cosCalls' = listCall \o <<<<"CreateUpdateSQLRoleAssignment", put>>>>
                    /\ UNCHANGED cosApi
               ELSE IF wait = "err"
               THEN cosRes' = "error" /\ cosD' = d1
                    /\ cosCalls' = listCall \o <<<<"CreateUpdateSQLRoleAssignment", put>>,
                                                 <<"WaitForCompletion", wait>>>>
                    /\ UNCHANGED cosApi
               ELSE /\ cosApi' = api1
                    /\ cosD' = read.d
                    /\ cosRes' = read.res
                    /\ cosCalls' = listCall \o <<<<"CreateUpdateSQLRoleAssignment", put>>,
                                                 <<"WaitForCompletion", wait>>>> \o read.calls
    /\ CosFrame

\* resourceCosmosDbRoleAssignmentRead on the resource in state.
CosRead ==
    /\ sys = "cosmos"
    /\ cosSteps < MaxCosSteps
    /\ cosD.id # <<"">>
    /\ \E get \in {"200", "err"} :
        \E read \in {CosReadOutcome(cosD, cosApi, get)} :
            /\ cosD' = read.d
            /\ cosRes' = read.res
            /\ cosCalls' = read.calls
    /\ cosOp' = "read"
    /\ cosPre' = cosApi
    /\ cosSteps' = cosSteps + 1
    /\ UNCHANGED <<cosCfg, cosApi>>
    /\ CosFrame

\* resourceCosmosDbRoleAssignmentDelete on the resource in state.
CosDelete ==
    /\ sys = "cosmos"
    /\ cosSteps < MaxCosSteps
    /\ cosD.id # <<"">>
    /\ \E del \in {"200", "err"}, wait \in {"200", "err"} :
        \E id \in {SqlRoleAssigmentID(cosD.id)} :
            IF id.err
            THEN cosRes' = "error" /\ cosCalls' = <<>> /\ UNCHANGED cosApi
            ELSE IF del = "err"
            THEN cosRes' = "error" /\ UNCHANGED cosApi
                 /\ cosCalls' = <<<<"DeleteSQLRoleAssignment", del>>>>
            ELSE /\ cosApi' = {r \in cosApi : r.Name # id.SqlRoleAssignmentName}
                 /\ cosRes' = IF wait = "err" THEN "error" ELSE "ok"
                 /\ cosCalls' = <<<<"DeleteSQLRoleAssignment", del>>,
                                  <<"WaitForCompletion", wait>>>>
    /\ cosOp' = "delete"
    /\ cosPre' = cosApi
    /\ cosSteps' = cosSteps + 1
    /\ UNCHANGED <<cosCfg, cosD>>
    /\ CosFrame

CosNext == CosCreate \/ CosRead \/ CosDelete

CosNoCallFailed == \A i \in 1..Len(cosCalls) : cosCalls[i][2] = "200"

\* C2: a Create whose name, account and resource group identify a role
\* assignment that already exists fails with the requires-import error.
C2_RequiresImport ==
    (/\ cosOp = "create"
     /\ cosCfg.name # ""
     /\ CosHas(cosPre, cosCfg.name)
     /\ CosNoCallFailed
     /\ cosCfg.role_definition_id # "") => cosRes = "import_exists"

(***************************************************************************)
(* azurerm_chaos_target                                                    *)
(***************************************************************************)

MaxChSteps == 3

\* Locations as the API and the configuration may spell them, and
\* location.Normalize: lower case, spaces removed.
ChLocations == {"westeurope", "West Europe", "WESTEUROPE", "North Europe"}

LocationNormalize(l) ==
    CASE l = "West Europe" -> "westeurope"
      [] l = "WESTEUROPE" -> "westeurope"
      [] l = "North Europe" -> "northeurope"
      [] OTHER -> l

ChConfigs ==
    [Name : {"Microsoft-Agent", "Microsoft-CosmosDB"},
     ResourceGroup : {"rg"},
     ParentResourceType : {"virtualMachines", "databaseAccounts"},
     ParentName : {"parent1"},
     ParentProviderNamespace : {"Microsoft.Compute", "Microsoft.DocumentDB"},
     Location : {"westeurope", "northeurope"}]

\* targets.NewTargetID
NewTargetID(subscriptionId, model) ==
    [SubscriptionId |-> subscriptionId,
     ResourceGroupName |-> model.ResourceGroup,
     ParentProviderNamespace |-> model.ParentProviderNamespace,
     ParentResourceType |-> model.ParentResourceType,
     ParentResourceName |-> model.ParentName,
     TargetName |-> model.Name]

\* TargetId.ID()
TargetIdID(id) ==
    <<"", "subscriptions", id.SubscriptionId, "resourceGroups", id.ResourceGroupName,
      "providers", id.ParentProviderNamespace, id.ParentResourceType,
      id.ParentResourceName, "providers", "Microsoft.Chaos", "targets", id.TargetName>>

ChNoId ==
    [err |-> TRUE, SubscriptionId |-> "", ResourceGroupName |-> "",
     ParentProviderNamespace |-> "", ParentResourceType |-> "",
     ParentResourceName |-> "", TargetName |-> ""]

\* targets.ParseTargetID: the fixed segments in their places, every value
\* non-empty.
ParseTargetID(input) ==
    IF /\ Len(input) = 13
       /\ input[1] = "" /\ input[2] = "subscriptions" /\ input[4] = "resourceGroups"
       /\ input[6] = "providers" /\ input[10] = "providers"
       /\ input[11] = "Microsoft.Chaos" /\ input[12] = "targets"
       /\ \A i \in {3, 5, 7, 8, 9, 13} : input[i] # ""
    THEN [err |-> FALSE, SubscriptionId |-> input[3], ResourceGroupName |-> input[5],
          ParentProviderNamespace |-> input[7], ParentResourceType |-> input[8],
          ParentResourceName |-> input[9], TargetName |-> input[13]]
    ELSE ChNoId

ChNoModel ==
    [Name |-> "", ResourceGroup |-> "", ParentResourceType |-> "", ParentName |-> "",
     ParentProviderNamespace |-> "", Location |-> ""]

ChNoD == [id |-> <<"">>, model |-> ChNoModel]

ChApiNone == [exists |-> FALSE, Location |-> "", forId |-> <<"">>]

\* A Read that puts the parent's provider namespace and resource type into
\* each other's field.
ChReadState_Swapped(id, respLocation) ==
    [Name |-> id.TargetName,
     Location |-> LocationNormalize(respLocation),
     ResourceGroup |-> id.ResourceGroupName,
     ParentResourceType |-> id.ParentProviderNamespace,
     ParentProviderNamespace |-> id.ParentResourceType,
     ParentName |-> id.ParentResourceName]

\* The TargetResourceModel that Read encodes into state.
ChReadState(id, respLocation) ==
    [Name |-> id.TargetName,
     Location |-> LocationNormalize(respLocation),
     ResourceGroup |-> id.ResourceGroupName,
     ParentResourceType |-> id.ParentResourceType,
     ParentProviderNamespace |-> id.ParentProviderNamespace,
     ParentName |-> id.ParentResourceName]

\* The branch TargetResource.Read takes when Get fails, by whether the
\* response was a 404: "gone" for metadata.MarkAsGone, "error" for the error
\* it returns.
ChReadOnGetError(wasNotFound) == IF ~wasNotFound THEN "gone" ELSE "error"

\* TargetResource.Read with the answer of Get.
ChReadOutcome(d, api, get) ==
    LET id == ParseTargetID(d.id)
    IN  IF id.err THEN [d |-> d, res |-> "error"]
        ELSE IF get # "200"
        THEN IF ChReadOnGetError(get = "404") = "gone"
             THEN [d |-> [d EXCEPT !.id = <<"">>], res |-> "ok"]
             ELSE [d |-> d, res |-> "error"]
        ELSE [d |-> [d EXCEPT !.model = ChReadState(id, api.Location)], res |-> "ok"]

ChInit ==
    /\ chCfg \in ChConfigs
    /\ chD = ChNoD
    /\ chApi \in {ChApiNone} \cup
                 {[exists |-> TRUE, Location |-> l,
                   forId |-> TargetIdID(NewTargetID("sub", chCfg))] : l \in ChLocations}
    /\ chCalls = <<>>
    /\ chOp = "none"
    /\ chRes = "none"
    /\ chSteps = 0
    /\ chOrigin = "none"

ChFrame == UNCHANGED <<sys, kmcVars, idVars, cosVars, hkVars, psVars, fwVars>>

\* TargetResource.Create: the presence check, CreateOrUpdate, SetID.
ChCreate ==
    /\ sys = "chaos"
    /\ chOp = "none"
    /\ \E get \in GetAnswers(chApi.exists), put \in {"200", "err"},
          stored \in ChLocations :
        LET id == NewTargetID("sub", chCfg)
            d0 == [id |-> <<"">>, model |-> chCfg]
        IN  /\ LocationNormalize(stored) = LocationNormalize(chCfg.Location)
            /\ IF get = "err"
               THEN chRes' = "error" /\ chD' = d0 /\ chCalls' = <<<<"Get", get>>>>
                    /\ UNCHANGED chApi
               ELSE IF get # "404"
               THEN chRes' = "import_exists" /\ chD' = d0 /\ chCalls' = <<<<"Get", get>>>>
                    /\ UNCHANGED chApi
               ELSE IF put = "err"
               THEN chRes' = "error" /\ chD' = d0
                    /\ chCalls' = <<<<"Get", get>>, <<"CreateOrUpdate", put>>>>
                    /\ UNCHANGED chApi
               ELSE /\ chRes' = "ok"
                    /\ chD' = [d0 EXCEPT !.id = TargetIdID(id)]
                    /\ chApi' = [exists |-> TRUE, Location |-> stored,
                                 forId |-> TargetIdID(id)]
                    /\ chCalls' = <<<<"Get", get>>, <<"CreateOrUpdate", put>>>>
    /\ chOp' = "create"
    /\ chOrigin' = "create"
    /\ chSteps' = chSteps + 1
    /\ UNCHANGED chCfg
    /\ ChFrame

\* The import of an existing target: the id is put into an empty
\* ResourceData; Read follows.
ChImport ==
    /\ sys = "chaos"
    /\ chOp = "none"
    /\ chApi.exists
    /\ chD' = [ChNoD EXCEPT !.id = chApi.forId]
    /\ chOp' = "import"
    /\ chOrigin' = "import"
    /\ chRes' = "ok"
    /\ chCalls' = <<>>
    /\ chSteps' = chSteps + 1
    /\ UNCHANGED <<chCfg, chApi>>
    /\ ChFrame

\* TargetResource.Read on the resource in state.
ChRead ==
    /\ sys = "chaos"
    /\ chSteps < MaxChSteps
    /\ chOp \in {"create", "import", "read", "removed"}
    /\ chD.id # <<"">>
    /\ \E get \in GetAnswers(chApi.exists) :
        \E out \in {ChReadOutcome(chD, chApi, get)} :
            /\ chD' = out.d
            /\ chRes' = out.res
            /\ chCalls' = <<<<"Get", get>>>>
    /\ chOp' = "read"
    /\ chSteps' = chSteps + 1
    /\ UNCHANGED <<chCfg, chApi, chOrigin>>
    /\ ChFrame

\* The target is removed outside Terraform.
ChRemovedRemotely ==
    /\ sys = "chaos"
    /\ chSteps < MaxChSteps
    /\ chOp \in {"create", "import", "read"}
    /\ chD.id # <<"">>
    /\ chApi.exists
    /\ chApi' = ChApiNone
    /\ chOp' = "removed"
    /\ chSteps' = chSteps + 1
    /\ UNCHANGED <<chCfg, chD, chRes, chCalls, chOrigin>>
    /\ ChFrame

\* TargetResource.Delete on the resource in state.
ChDelete ==
    /\ sys = "chaos"
    /\ chSteps < MaxChSteps
    /\ chOp \in {"create", "import", "read"}
    /\ chD.id # <<"">>
    /\ \E del \in {"200", "err"} :
        LET id == ParseTargetID(chD.id)
        IN  /\ chRes' = IF id.err \/ del = "err" THEN "error" ELSE "ok"
            /\ chApi' = IF id.err \/ del = "err" THEN chApi ELSE ChApiNone
            /\ chCalls' = IF id.err THEN <<>> ELSE <<<<"Delete", del>>>>
    /\ chOp' = "delete"
    /\ chSteps' = chSteps + 1
    /\ UNCHANGED <<chCfg, chD, chOrigin>>
    /\ ChFrame

ChNext == ChCreate \/ ChImport \/ ChRead \/ ChRemovedRemotely \/ ChDelete

\* The last handler was a Read whose Get was answered with `answer'.
ChReadGot(answer) ==
    /\ chOp = "read"
    /\ chCalls = <<<<"Get", answer>>>>

C7_GoneExactlyOnNotFound ==
    /\ ChReadGot("404") => (chRes = "ok" /\ chD.id = <<"">>)
    /\ ChReadGot("err") => (chRes = "error" /\ chD.id # <<"">>)

(***************************************************************************)
(* The ID parsers and validators, applied to formatted IDs and to edits of *)
(* them: truncation, upper-casing, a replaced piece, two pairs swapped.    *)
(***************************************************************************)

MaxEdits == 2

SomeValues == {<<"v1">>, <<"v2">>}
OddValues == {<<"">>, <<"x", "y">>}
ReplacementPieces == {"", "Microsoft.Foo"}

ToUpper(piece) ==
    CASE piece = "subscriptions" -> "SUBSCRIPTIONS"
      [] piece = "resourceGroups" -> "RESOURCEGROUPS"
      [] piece = "resourcegroups" -> "RESOURCEGROUPS"
      [] piece = "providers" -> "PROVIDERS"
      [] piece = "Microsoft.Sql" -> "MICROSOFT.SQL"
      [] piece = "Microsoft.CostManagement" -> "MICROSOFT.COSTMANAGEMENT"
      [] piece = "Microsoft.Foo" -> "MICROSOFT.FOO"
      [] piece = "managedInstances" -> "MANAGEDINSTANCES"
      [] piece = "administrators" -> "ADMINISTRATORS"
      [] piece = "scheduledActions" -> "SCHEDULEDACTIONS"
      [] piece = "v1" -> "V1"
      [] piece = "v2" -> "V2"
      [] piece = "x" -> "X"
      [] piece = "y" -> "Y"
      [] OTHER -> piece

\* SubscriptionCostManagementScheduledActionId.ID()
SubscriptionCostManagementScheduledActionIdID(id) ==
    <<"">> \o JoinPairs(<<"subscriptions", "providers", "scheduledActions">>,
                        <<id.SubscriptionId, <<"Microsoft.CostManagement">>,
                          id.ScheduledActionName>>)

IdNoOut ==
    [done |-> FALSE, err |-> FALSE, errors |-> 0, SubscriptionId |-> "",
     ResourceGroup |-> "", ManagedInstanceName |-> "", AdministratorName |-> ""]

IdInit ==
    /\ idKind \in {"managedInstanceAdministrator", "scheduledAction"}
    /\ idVals \in [SubscriptionId : {<<"v1">>},
                   ResourceGroup : {<<"v1">>, <<"">>},
                   ManagedInstanceName : SomeValues \cup {<<"x", "y">>},
                   AdministratorName : SomeValues \cup {<<"">>}]
    /\ idKind = "scheduledAction" =>
          idVals.ResourceGroup = <<"v1">> /\ idVals.ManagedInstanceName = <<"v1">>
    /\ idInput = IF idKind = "managedInstanceAdministrator"
                 THEN ManagedInstanceAzureActiveDirectoryAdministratorIdID(idVals)
                 ELSE SubscriptionCostManagementScheduledActionIdID(
                        [SubscriptionId |-> idVals.SubscriptionId,
                         ScheduledActionName |-> idVals.AdministratorName])
    /\ idEdits = 0
    /\ idOut = IdNoOut

IdFrame == UNCHANGED <<sys, kmcVars, cosVars, chVars, hkVars, psVars, fwVars>>

IdCanEdit == sys = "ids" /\ ~idOut.done /\ idEdits < MaxEdits

\* The input cut after its first n pieces, with or without a trailing "/".
IdTruncate ==
    /\ IdCanEdit
    /\ \E n \in 1..(Len(idInput) - 1), trailing \in BOOLEAN :
         idInput' = SubSeq(idInput, 1, n) \o (IF trailing THEN <<"">> ELSE <<>>)
    /\ idEdits' = idEdits + 1
    /\ UNCHANGED <<idKind, idVals, idOut>>
    /\ IdFrame

\* strings.ToUpper of the input.
IdUpperCase ==
    /\ IdCanEdit
    /\ idInput' = [i \in 1..Len(idInput) |-> ToUpper(idInput[i])]
    /\ idInput' # idInput
    /\ idEdits' = idEdits + 1
    /\ UNCHANGED <<idKind, idVals, idOut>>
    /\ IdFrame

\* One piece of the input replaced.
IdReplace ==
    /\ IdCanEdit
    /\ \E i \in 2..Len(idInput), piece \in ReplacementPieces :
         /\ idInput[i] # piece
         /\ idInput' = [idInput EXCEPT ![i] = piece]
    /\ idEdits' = idEdits + 1
    /\ UNCHANGED <<idKind, idVals, idOut>>
    /\ IdFrame

\* Two neighbouring key/value pairs of the input swapped.
IdSwapPairs ==
    /\ IdCanEdit
    /\ \E k \in 1..((Len(idInput) - 1) \div 2 - 1) :
         idInput' = [idInput EXCEPT ![2 * k] = idInput[2 * k + 2],
                                    ![2 * k + 1] = idInput[2 * k + 3],
                                    ![2 * k + 2] = idInput[2 * k],
                                    ![2 * k + 3] = idInput[2 * k + 1]]
    /\ idEdits' = idEdits + 1
    /\ UNCHANGED <<idKind, idVals, idOut>>
    /\ IdFrame

\* ManagedInstanceAzureActiveDirectoryAdministratorID(input)
IdParseManagedInstanceAdministrator ==
    /\ sys = "ids"
    /\ idKind = "managedInstanceAdministrator"
    /\ ~idOut.done
    /\ \E r \in {ManagedInstanceAzureActiveDirectoryAdministratorID(idInput)} :
           idOut' = [done |-> TRUE, err |-> r.err, errors |-> 0,
                     SubscriptionId |-> r.SubscriptionId,
                     ResourceGroup |-> r.ResourceGroup,
                     ManagedInstanceName |-> r.ManagedInstanceName,
                     AdministratorName |-> r.AdministratorName]
    /\ UNCHANGED <<idKind, idVals, idInput, idEdits>>
    /\ IdFrame

\* SubscriptionCostManagementScheduledActionID(input, key)
IdValidateScheduledAction ==
    /\ sys = "ids"
    /\ idKind = "scheduledAction"
    /\ ~idOut.done
    /\ \E n \in {SubscriptionCostManagementScheduledActionID(idInput)} :
           idOut' = [IdNoOut EXCEPT !.done = TRUE, !.err = (n > 0), !.errors = n]
    /\ UNCHANGED <<idKind, idVals, idInput, idEdits>>
    /\ IdFrame

IdNext ==
    \/ IdTruncate
    \/ IdUpperCase
    \/ IdReplace
    \/ IdSwapPairs
    \/ IdParseManagedInstanceAdministrator
    \/ IdValidateScheduledAction

\* The form /subscriptions/<s>/resourceGroups/<g>/providers/Microsoft.Sql/
\* managedInstances/<i>/administrators/<a>, and the pieces a string of n
\* pieces must show to be the start of one.
MiTemplate ==
    <<"", "subscriptions", "*", "resourceGroups", "*", "providers", "Microsoft.Sql",
      "managedInstances", "*", "administrators", "*">>

SaTemplate ==
    <<"", "subscriptions", "*", "providers", "Microsoft.CostManagement",
      "scheduledActions", "*">>

StartsLike(template, pieces) ==
    /\ Len(pieces) <= Len(template)
    /\ \A i \in 1..Len(pieces) :
         IF template[i] = "*" THEN pieces[i] # "" ELSE pieces[i] = template[i]

HasForm(template, input) == Len(input) = Len(template) /\ StartsLike(template, input)

\* The empty string, and a string of the form cut short: a segment or a value
\* is missing, with or without a trailing "/".
IsCutShort(template, input) ==
    \/ input = <<"">>
    \/ /\ Len(input) < Len(template) /\ StartsLike(template, input)
    \/ /\ Len(input) >= 2 /\ Len(input) <= Len(template)
       /\ input[Len(input)] = "" /\ StartsLike(template, SubSeq(input, 1, Len(input) - 1))

\* The upper-cased form of a string of the form.
IsUpperCased(template, input) ==
    /\ Len(input) = Len(template)
    /\ \A i \in 1..Len(input) :
         IF template[i] = "*" THEN input[i] \in {"V1", "V2"}
         ELSE input[i] = ToUpper(template[i])

IdParsedMi == idKind = "managedInstanceAdministrator" /\ idOut.done
IdParsedSa == idKind = "scheduledAction" /\ idOut.done

IdPlainValues ==
    \A f \in {"SubscriptionId", "ResourceGroup", "ManagedInstanceName", "AdministratorName"} :
        idVals[f] \in SomeValues

\* C5 as stated: the parser accepts exactly the strings of the form, returns
\* the four values, and parses what ID() formats back to the same values.
C5_AcceptsExactlyTheForm ==
    IdParsedMi =>
        /\ ~idOut.err <=> HasForm(MiTemplate, idInput)
        /\ ~idOut.err =>
              /\ idOut.SubscriptionId = idInput[3]
              /\ idOut.ResourceGroup = idInput[5]
              /\ idOut.ManagedInstanceName = idInput[9]
              /\ idOut.AdministratorName = idInput[11]
        /\ (idEdits = 0 /\ IdPlainValues) =>
              /\ ~idOut.err
              /\ <<idOut.SubscriptionId>> = idVals.SubscriptionId
              /\ <<idOut.ResourceGroup>> = idVals.ResourceGroup
              /\ <<idOut.ManagedInstanceName>> = idVals.ManagedInstanceName
              /\ <<idOut.AdministratorName>> = idVals.AdministratorName

\* C5 as amended: the parser accepts every string of the form and returns
\* its four values; it returns an error for the empty string, for a string of
\* the form cut short and for the upper-cased form; it parses what ID()
\* formats from non-empty values without "/" back to the same values.
C5_AcceptsTheForm ==
    IdParsedMi =>
        /\ HasForm(MiTemplate, idInput) =>
              /\ ~idOut.err
              /\ idOut.SubscriptionId = idInput[3]
              /\ idOut.ResourceGroup = idInput[5]
              /\ idOut.ManagedInstanceName = idInput[9]
              /\ idOut.AdministratorName = idInput[11]
        /\ IsCutShort(MiTemplate, idInput) => idOut.err
        /\ IsUpperCased(MiTemplate, idInput) => idOut.err
        /\ (idEdits = 0 /\ IdPlainValues) =>
              /\ ~idOut.err
              /\ <<idOut.SubscriptionId>> = idVals.SubscriptionId
              /\ <<idOut.ResourceGroup>> = idVals.ResourceGroup
              /\ <<idOut.ManagedInstanceName>> = idVals.ManagedInstanceName
              /\ <<idOut.AdministratorName>> = idVals.AdministratorName

\* A formatted ID was parsed back, and an upper-cased one was refused.
C5_Witness ==
    /\ IdParsedMi
    /\ \/ idEdits = 0 /\ ~idOut.err /\ idOut.ManagedInstanceName = "v2"
                      /\ idOut.AdministratorName = "v1"

\* C6 as stated: the validator reports no errors exactly for the strings of
\* the form /subscriptions/<s>/providers/Microsoft.CostManagement/
\* scheduledActions/<n>.
C6_ValidExactlyTheForm ==
    IdParsedSa => (idOut.errors = 0 <=> HasForm(SaTemplate, idInput))

\* C6 as amended: the validator reports no errors for every string of the
\* form, and at least one error for the empty string, for a string of the
\* form cut short and for the upper-cased form.
C6_ValidForTheForm ==
    IdParsedSa =>
        /\ HasForm(SaTemplate, idInput) => idOut.errors = 0
        /\ IsCutShort(SaTemplate, idInput) => idOut.errors >= 1
        /\ IsUpperCased(SaTemplate, idInput) => idOut.errors >= 1

\* The validator refused a string that lacks the value of scheduledActions.
C6_Witness ==
    /\ IdParsedSa
    /\ idInput = <<"", "subscriptions", "v1", "providers", "Microsoft.CostManagement",
                   "scheduledActions", "">>
    /\ idOut.errors >= 1

(***************************************************************************)
(* azurerm_function_app_host_keys                                          *)
(***************************************************************************)

MaxHkSteps == 3
MaxListRetries == 1

\* A map[string]string is a function from its keys to its values.
HkKeys == {"default", "password"}
HkValues == {"", "123234"}
HkMaps == UNION {[ks -> HkValues] : ks \in SUBSET HkKeys}
HkNoMap == [k \in {} |-> ""]

\* The orders in which a range over a map may visit its keys.
Perms(S) ==
    {f \in [1..Cardinality(S) -> S] : \A i, j \in 1..Cardinality(S) : i # j => f[i] # f[j]}

NoOneSegmentID == [err |-> TRUE, SubscriptionId |-> "", ResourceGroup |-> "", Name |-> ""]

\* The body of a generated parser for a resource-group-scoped ID with one
\* named segment, after ParseAzureResourceID.
PopOneSegment(id, segment) ==
    IF id.err THEN NoOneSegmentID
    ELSE IF id.SubscriptionID = "" THEN NoOneSegmentID
    ELSE IF id.ResourceGroup = "" THEN NoOneSegmentID
    ELSE IF ~PathHas(id.Path, segment) THEN NoOneSegmentID
    ELSE IF PathDelete(id.Path, segment) # {} THEN NoOneSegmentID
    ELSE [err |-> FALSE, SubscriptionId |-> id.SubscriptionID,
          ResourceGroup |-> id.ResourceGroup, Name |-> PathGet(id.Path, segment)]

\* parse.NewFunctionAppID(subscriptionId, resourceGroup, name).ID()
FunctionAppIdID(subscriptionId, resourceGroup, name) ==
    <<"">> \o JoinPairs(<<"subscriptions", "resourceGroups", "providers", "sites">>,
                        <<subscriptionId, resourceGroup, <<"Microsoft.Web">>, name>>)

\* parse.FunctionAppID
FunctionAppID(input) == PopOneSegment(ParseAzureResourceID(input), "sites")

HkAppId == FunctionAppIdID(<<"sub">>, <<"rg">>, <<"app">>)

HkNoD == [id |-> <<"">>, primary_key |-> "", host_keys |-> HkNoMap]

\* A loop that leaves out the pairs with an empty value.
HkKeysToUpsert_NonEmpty(input) == {k \in DOMAIN input : input[k] # ""}

\* The keys `for k, v := range input' upserts.
HkKeysToUpsert(input) == DOMAIN input

\* A second loop that deletes only the keys the new map lacks.
HkKeysToDelete_AbsentOnly(old, new) ==
    {oldKey \in DOMAIN old : oldKey \notin DOMAIN new}

\* The keys of the old map that the second loop deletes.
HkKeysToDelete(old, new) ==
    {oldKey \in DOMAIN old : oldKey \notin DOMAIN new \/ new[oldKey] = ""}

\* The calls of the first loop, visiting the keys in `order', of which the
\* first okCount succeed and the next one, if any, fails.
HkUpsertCalls(input, order, okCount) ==
    [i \in 1..(IF okCount < Len(order) THEN okCount + 1 ELSE okCount) |->
        <<"CreateOrUpdateHostSecret", "functionKeys", order[i], input[order[i]],
          IF i <= okCount THEN "200" ELSE "err">>]

\* The function keys of the app after the keys of `done' were set from input.
HkUpserted(keys, input, done) ==
    [k \in DOMAIN keys \cup done |-> IF k \in done THEN input[k] ELSE keys[k]]

\* The calls of the second loop, visiting the keys in `order'; the call
\* numbered failAt fails with another error than 404 (0: none does).
HkDeleteCalls(keys, order, failAt) ==
    [i \in 1..(IF failAt = 0 THEN Len(order) ELSE failAt) |->
        <<"DeleteHostSecret", "functionKeys", order[i],
          IF i = failAt THEN "err"
          ELSE IF order[i] \in DOMAIN keys THEN "200" ELSE "404">>]

HkDeleted(keys, gone) == [k \in DOMAIN keys \ gone |-> keys[k]]

\* flattenFunctionKeys
flattenFunctionKeys(input) == [k \in DOMAIN input |-> input[k]]

\* What pluginsdk.Retry sees of ListHostKeys: failures that are retried,
\* then an answer, a 404 or the timeout.
HkListAnswers == [retries : 0..MaxListRetries, final : {"200", "404", "timeout"}]

HkListCalls(list) ==
    [i \in 1..list.retries |-> <<"ListHostKeys", "err">>]
        \o (IF list.final = "timeout" THEN <<>> ELSE <<<<"ListHostKeys", list.final>>>>)

\* resourceFunctionAppHostKeysRead
HkReadParsed(d, api, list, id) ==
    IF id.err THEN [d |-> d, res |-> "error", calls |-> <<>>]
    ELSE IF list.final # "200" THEN [d |-> d, res |-> "error", calls |-> HkListCalls(list)]
    ELSE [d |-> [d EXCEPT !.primary_key = api.MasterKey,
                          !.host_keys = flattenFunctionKeys(api.FunctionKeys)],
          res |-> "ok", calls |-> HkListCalls(list)]

HkReadOutcome(d, api, list) == HkReadParsed(d, api, list, FunctionAppID(d.id))

HkInit ==
    /\ hkCfg \in HkMaps
    /\ hkOld = HkNoMap
    /\ hkD = HkNoD
    /\ hkApi \in [MasterKey : {"mk"},
                  FunctionKeys : {HkNoMap, [k \in {"default"} |-> "generated"]}]
    /\ hkCalls = <<>>
    /\ hkOp = "none"
    /\ hkRes = "none"
    /\ hkSteps = 0

HkFrame == UNCHANGED <<sys, kmcVars, idVars, cosVars, chVars, psVars, fwVars>>

\* resourceFunctionAppHostKeysCreateUpdate with `old' the host_keys of the
\* prior state and hkCfg' the configured map.
HkCreateUpdate(old) ==
    \E order \in Perms(HkKeysToUpsert(hkCfg')), okCount \in 0..Cardinality(HkKeysToUpsert(hkCfg')),
       dorder \in Perms(HkKeysToDelete(old, hkCfg')),
       failAt \in 0..Cardinality(HkKeysToDelete(old, hkCfg')),
       list \in HkListAnswers :
        LET changed == old # hkCfg'
            upserts == IF changed THEN HkUpsertCalls(hkCfg', order, okCount) ELSE <<>>
            upsertFailed == changed /\ okCount < Len(order)
            keys1 == IF changed
                     THEN HkUpserted(hkApi.FunctionKeys, hkCfg',
                                     {order[i] : i \in 1..okCount})
                     ELSE hkApi.FunctionKeys
            deletes == IF changed /\ ~upsertFailed
                       THEN HkDeleteCalls(keys1, dorder, failAt) ELSE <<>>
            deleteFailed == changed /\ ~upsertFailed /\ failAt # 0
            keys2 == HkDeleted(keys1, {deletes[i][3] : i \in
                                         {j \in 1..Len(deletes) : deletes[j][4] = "200"}})
            api2 == [hkApi EXCEPT !.FunctionKeys = keys2]
        IN  /\ ~changed => (okCount = 0 /\ failAt = 0)
            /\ upsertFailed => failAt = 0
            /\ (upsertFailed \/ deleteFailed) => list = [retries |-> 0, final |-> "200"]
            /\ hkOld' = old
            /\ hkApi' = api2
            /\ IF upsertFailed \/ deleteFailed
               THEN /\ hkRes' = "error"
                    /\ hkD' = hkD
                    /\ hkCalls' = upserts \o deletes
               ELSE \E read \in {HkReadOutcome([hkD EXCEPT !.id = HkAppId], api2, list)} :
                    /\ hkRes' = read.res
                    /\ hkD' = read.d
                    /\ hkCalls' = upserts \o deletes \o read.calls

\* Create: there is no prior state.
HkCreate ==
    /\ sys = "hostkeys"
    /\ hkOp = "none"
    /\ hkCfg' = hkCfg
    /\ HkCreateUpdate(HkNoMap)
    /\ hkOp' = "create"
    /\ hkSteps' = hkSteps + 1
    /\ HkFrame

\* Update with a changed configuration, on the state the last Read left.
HkUpdate ==
    /\ sys = "hostkeys"
    /\ hkSteps < MaxHkSteps
    /\ hkOp \in {"create", "update", "read", "changed"}
    /\ hkRes = "ok"
    /\ hkD.id # <<"">>
    /\ hkCfg' \in HkMaps
    /\ HkCreateUpdate(hkD.host_keys)
    /\ hkOp' = "update"
    /\ hkSteps' = hkSteps + 1
    /\ HkFrame

\* Read on the resource in state.
HkRead ==
    /\ sys = "hostkeys"
    /\ hkSteps < MaxHkSteps
    /\ hkOp \in {"create", "update", "changed"}
    /\ hkD.id # <<"">>
    /\ \E list \in HkListAnswers :
        \E read \in {HkReadOutcome(hkD, hkApi, list)} :
            /\ hkRes' = read.res
            /\ hkD' = read.d
            /\ hkCalls' = read.calls
    /\ hkOp' = "read"
    /\ hkSteps' = hkSteps + 1
    /\ UNCHANGED <<hkCfg, hkOld, hkApi>>
    /\ HkFrame

\* A function key is removed outside Terraform.
HkChangedRemotely ==
    /\ sys = "hostkeys"
    /\ hkSteps < MaxHkSteps
    /\ hkOp \in {"create", "update", "read"}
    /\ \E k \in DOMAIN hkApi.FunctionKeys :
        hkApi' = [hkApi EXCEPT !.FunctionKeys = HkDeleted(hkApi.FunctionKeys, {k})]
    /\ hkOp' = "changed"
    /\ hkSteps' = hkSteps + 1
    /\ UNCHANGED <<hkCfg, hkOld, hkD, hkCalls, hkRes>>
    /\ HkFrame

\* resourceFunctionAppHostKeysDelete: every key of the state's map is
\* deleted; a 404 is skipped, another failure aborts.
HkDelete ==
    /\ sys = "hostkeys"
    /\ hkSteps < MaxHkSteps
    /\ hkOp \in {"create", "update", "read", "changed"}
    /\ hkD.id # <<"">>
    /\ \E dorder \in Perms(DOMAIN hkD.host_keys),
          failAt \in 0..Cardinality(DOMAIN hkD.host_keys) :
        \E deletes \in {HkDeleteCalls(hkApi.FunctionKeys, dorder, failAt)} :
            /\ hkCalls' = deletes
            /\ hkRes' = IF failAt = 0 THEN "ok" ELSE "error"
            /\ hkApi' = [hkApi EXCEPT !.FunctionKeys =
                            HkDeleted(hkApi.FunctionKeys,
                                      {deletes[i][3] : i \in
                                         {j \in 1..Len(deletes) : deletes[j][4] = "200"}})]
    /\ hkOp' = "delete"
    /\ hkSteps' = hkSteps + 1
    /\ UNCHANGED <<hkCfg, hkOld, hkD>>
    /\ HkFrame

HkNext == HkCreate \/ HkUpdate \/ HkRead \/ HkChangedRemotely \/ HkDelete

\* The successful calls of the last handler that set key k.
HkUpsertsOf(k) ==
    {i \in 1..Len(hkCalls) : /\ hkCalls[i][1] = "CreateOrUpdateHostSecret"
                             /\ hkCalls[i][3] = k}

HkUpsertIdx == {i \in 1..Len(hkCalls) : hkCalls[i][1] = "CreateOrUpdateHostSecret"}
HkDeleteIdx == {i \in 1..Len(hkCalls) : hkCalls[i][1] = "DeleteHostSecret"}

\* One of the loops ended in a failed call.
HkLoopFailed ==
    \/ \E i \in HkUpsertIdx : hkCalls[i][5] = "err"
    \/ \E i \in HkDeleteIdx : hkCalls[i][4] = "err"

\* C12: on an update with a changed host_keys, the upserts come before the
\* deletes, and a delete is sent only after every key of the new map was
\* upserted; a delete is only ever sent for a key of the old map that the
\* new map lacks or holds with an empty value, so never for a key with a
\* non-empty new value; when no call of the loops fails otherwise than with
\* a 404 on a delete, exactly those keys are deleted, once each, and the
\* handler goes on to Read; a delete that fails otherwise is the last call
\* and the handler returns an error.
C12_UpdateUpsertsThenDeletesRemoved ==
    (hkOp = "update" /\ hkOld # hkCfg) =>
        /\ \A i \in HkUpsertIdx, j \in HkDeleteIdx : i < j
        /\ HkDeleteIdx # {} =>
              \A k \in DOMAIN hkCfg : \E i \in HkUpsertIdx :
                  hkCalls[i] = <<"CreateOrUpdateHostSecret", "functionKeys", k,
                                 hkCfg[k], "200">>
        /\ \A j \in HkDeleteIdx :
              /\ hkCalls[j][3] \in DOMAIN hkOld
              /\ hkCalls[j][3] \notin DOMAIN hkCfg \/ hkCfg[hkCalls[j][3]] = ""
        /\ ~HkLoopFailed =>
              /\ \A k \in DOMAIN hkCfg : \E i \in HkUpsertIdx : hkCalls[i][3] = k
              /\ {hkCalls[j][3] : j \in HkDeleteIdx}
                    = {k \in DOMAIN hkOld : k \notin DOMAIN hkCfg \/ hkCfg[k] = ""}
              /\ \A i, j \in HkDeleteIdx : hkCalls[i][3] = hkCalls[j][3] => i = j
              /\ (Len(hkCalls) >= 1 /\ hkCalls[Len(hkCalls)] = <<"ListHostKeys", "200">>)
                    => hkRes = "ok"
              /\ hkRes = "ok" => hkD.host_keys = hkApi.FunctionKeys
        /\ \A j \in HkDeleteIdx :
              hkCalls[j][4] = "err" => (j = Len(hkCalls) /\ hkRes = "error")

\* An update replaced the key default, which had been removed remotely, by
\* the key password: the upsert, the delete answered 404, and the Read.
C12_Witness ==
    /\ hkOp = "update"
    /\ hkRes = "ok"
    /\ hkOld = [k \in {"default"} |-> "123234"]
    /\ hkCfg = [k \in {"password"} |-> "123234"]
    /\ hkCalls = <<<<"CreateOrUpdateHostSecret", "functionKeys", "password", "123234", "200">>,
                   <<"DeleteHostSecret", "functionKeys", "default", "404">>,
                   <<"ListHostKeys", "200">>>>
    /\ hkD.host_keys = hkCfg

(***************************************************************************)
(* azurerm_automation_powershell72_module                                  *)
(***************************************************************************)

MaxPsOps == 2
MaxPolls == 2

\* StateChangeConf.Pending and .Target of Create and of Update.
PsPending ==
    {"ActivitiesStored", "ConnectionTypeImported", "ContentDownloaded",
     "ContentRetrieved", "ContentStored", "ContentValidated", "Created", "Creating",
     "ModuleDataStored", "ModuleImportRunbookComplete", "RunningImportModuleRunbook",
     "StartingImportModuleRunbook", "Updating"}

PsTarget == {"Succeeded"}

\* The provisioning states the polls of this model report; "nil" for a
\* response without one.
PsPolledStates == {"Creating", "Updating", "Succeeded", "Failed", "nil"}

PsConfig == [name |-> "mod", resource_group_name |-> "rg", automation_account_name |-> "acc"]

\* module.NewPowerShell72ModuleID(...).ID()
PowerShell72ModuleIdID(subscriptionId, cfg) ==
    <<"", "subscriptions", subscriptionId, "resourceGroups", cfg.resource_group_name,
      "providers", "Microsoft.Automation", "automationAccounts",
      cfg.automation_account_name, "powerShell72Modules", cfg.name>>

PsNoId ==
    [err |-> TRUE, ResourceGroupName |-> "", AutomationAccountName |-> "",
     PowerShell72ModuleName |-> ""]

\* module.ParsePowerShell72ModuleID: the fixed segments in their places,
\* every value non-empty.
ParsePowerShell72ModuleID(input) ==
    IF /\ Len(input) = 11
       /\ input[1] = "" /\ input[2] = "subscriptions" /\ input[4] = "resourceGroups"
       /\ input[6] = "providers" /\ input[7] = "Microsoft.Automation"
       /\ input[8] = "automationAccounts" /\ input[10] = "powerShell72Modules"
       /\ \A i \in {3, 5, 9, 11} : input[i] # ""
    THEN [err |-> FALSE, ResourceGroupName |-> input[5],
          AutomationAccountName |-> input[9], PowerShell72ModuleName |-> input[11]]
    ELSE PsNoId

PsId == PowerShell72ModuleIdID("sub", PsConfig)

PsNoD == [id |-> <<"">>, name |-> "", resource_group_name |-> "",
          automation_account_name |-> ""]

\* An API call with its answer: the status, and for a Get what the response
\* shows of the module (whether it has properties, IsGlobal, the
\* provisioning state, the error message).
PsCall(call, answer, props, global, state, msg) ==
    [call |-> call, answer |-> answer, props |-> props, global |-> global,
     state |-> state, msg |-> msg]

PsPut(answer) == PsCall("CreateOrUpdate", answer, FALSE, "nil", "nil", "")

\* The answers PowerShell72ModuleGet may give before CreateOrUpdate.
PsGetAnswers(api) ==
    IF api.exists
    THEN {PsCall("Get", "200", TRUE, g, "Succeeded", "") :
             g \in (IF api.isGlobal THEN {"true"} ELSE {"false", "nil"})}
         \cup {PsCall("Get", "err", FALSE, "nil", "nil", "")}
    ELSE {PsCall("Get", a, FALSE, "nil", "nil", "") : a \in {"404", "err"}}

\* The answers it may give to a poll.
PsPollAnswers ==
    {PsCall("Poll", "200", TRUE, "nil", s, m) : s \in PsPolledStates, m \in {"", "boom"}}
    \cup {PsCall("Poll", "200", FALSE, "nil", "nil", ""),
          PsCall("Poll", "err", FALSE, "nil", "nil", ""),
          PsCall("Poll", "404", FALSE, "nil", "nil", "")}

\* A check that takes no module for global.
PsIsGlobal_Never(get) == FALSE

\* existing.Model.Properties.IsGlobal is set and true.
PsIsGlobal(get) == get.answer = "200" /\ get.props /\ get.global = "true"

\* A Refresh that does not look at the error message.
PsRefresh_MessageIgnored(resp) ==
    IF resp.answer # "200" THEN [state |-> "Error", err |-> TRUE]
    ELSE IF ~resp.props THEN [state |-> "Unknown", err |-> FALSE]
    ELSE [state |-> IF resp.state = "nil" THEN "Unknown" ELSE resp.state,
          err |-> FALSE]

\* StateChangeConf.Refresh: the state and whether an error is returned.
PsRefresh(resp) ==
    IF resp.answer # "200" THEN [state |-> "Error", err |-> TRUE]
    ELSE IF ~resp.props THEN [state |-> "Unknown", err |-> FALSE]
    ELSE [state |-> IF resp.state = "nil" THEN "Unknown" ELSE resp.state,
          err |-> resp.msg # ""]

\* One round of WaitForStateContext on what Refresh returned.
PsWaitRound(refreshed) ==
    IF refreshed.err THEN "error"
    ELSE IF refreshed.state \in PsTarget THEN "done"
    ELSE IF refreshed.state \in PsPending THEN "pending"
    ELSE "error"

\* resourceAutomationPowerShell72ModuleRead with the answer of Get.
PsReadParsed(d, get, id) ==
    IF id.err THEN [d |-> d, res |-> "error", calls |-> <<>>]
    ELSE IF get.answer = "404"
    THEN [d |-> [d EXCEPT !.id = <<"">>], res |-> "ok", calls |-> <<get>>]
    ELSE IF get.answer # "200" THEN [d |-> d, res |-> "error", calls |-> <<get>>]
    ELSE [d |-> [d EXCEPT !.name = id.PowerShell72ModuleName,
                          !.resource_group_name = id.ResourceGroupName,
                          !.automation_account_name = id.AutomationAccountName],
          res |-> "ok", calls |-> <<get>>]

PsReadOutcome(d, get) == PsReadParsed(d, get, ParsePowerShell72ModuleID(d.id))

PsReadAnswers(api) ==
    {PsCall("Get", a, a = "200", "nil", IF a = "200" THEN "Succeeded" ELSE "nil", "") :
        a \in (IF api.exists THEN {"200", "err"} ELSE {"404", "err"})}

PsInit ==
    /\ psD = PsNoD
    /\ psApi \in [exists : BOOLEAN, isGlobal : BOOLEAN]
    /\ psApi.isGlobal => psApi.exists
    /\ psCalls = <<>>
    /\ psPc = "idle"
    /\ psOp = "none"
    /\ psRes = "none"
    /\ psOps = 0

PsFrame == UNCHANGED <<sys, kmcVars, idVars, cosVars, chVars, hkVars, fwVars>>

\* resourceAutomationPowerShell72ModuleCreate up to the wait: the presence
\* check and CreateOrUpdate.
PsCreateBegin ==
    /\ sys = "ps72"
    /\ psPc = "idle"
    /\ psOps < MaxPsOps
    /\ psD.id = <<"">>
    /\ \E get \in PsGetAnswers(psApi), put \in {"200", "err"} :
        IF get.answer = "err"
        THEN /\ put = "200"
             /\ psRes' = "error" /\ psPc' = "idle" /\ psCalls' = <<get>>
             /\ UNCHANGED psApi
        ELSE IF get.answer # "404" /\ ~PsIsGlobal(get)
        THEN /\ put = "200"
             /\ psRes' = "import_exists" /\ psPc' = "idle" /\ psCalls' = <<get>>
             /\ UNCHANGED psApi
        ELSE IF put = "err"
        THEN /\ psRes' = "error" /\ psPc' = "idle" /\ psCalls' = <<get, PsPut(put)>>
             /\ UNCHANGED psApi
        ELSE /\ psRes' = "running" /\ psPc' = "polling"
             /\ psCalls' = <<get, PsPut(put)>>
             /\ psApi' = [psApi EXCEPT !.exists = TRUE]
    /\ psD' = PsNoD
    /\ psOp' = "create"
    /\ psOps' = psOps + 1
    /\ PsFrame

\* resourceAutomationPowerShell72ModuleUpdate up to the wait.
PsUpdateBegin ==
    /\ sys = "ps72"
    /\ psPc = "idle"
    /\ psOps < MaxPsOps
    /\ psD.id # <<"">>
    /\ \E put \in {"200", "err"} :
        IF put = "err"
        THEN /\ psRes' = "error" /\ psPc' = "idle" /\ psCalls' = <<PsPut(put)>>
             /\ UNCHANGED psApi
        ELSE /\ psRes' = "running" /\ psPc' = "polling" /\ psCalls' = <<PsPut(put)>>
             /\ psApi' = [psApi EXCEPT !.exists = TRUE]
    /\ psOp' = "update"
    /\ psOps' = psOps + 1
    /\ UNCHANGED psD
    /\ PsFrame

PsPollCount == Cardinality({i \in 1..Len(psCalls) : psCalls[i].call = "Poll"})

\* One round of the wait; on the target state the handler goes on: Create
\* sets the id, and both end with Read.
PsPoll ==
    /\ sys = "ps72"
    /\ psPc = "polling"
    /\ PsPollCount < MaxPolls
    /\ \E resp \in PsPollAnswers, get \in PsReadAnswers(psApi) :
        \E round \in {PsWaitRound(PsRefresh(resp))} :
            IF round = "pending"
            THEN /\ get.answer = "err"
                 /\ psCalls' = Append(psCalls, resp)
                 /\ UNCHANGED <<psD, psPc, psRes>>
            ELSE IF round = "error"
            THEN /\ get.answer = "err"
                 /\ psCalls' = Append(psCalls, resp)
                 /\ psRes' = "error" /\ psPc' = "idle"
                 /\ UNCHANGED psD
            ELSE \E read \in {PsReadOutcome(IF psOp = "create"
                                            THEN [psD EXCEPT !.id = PsId]
                                            ELSE psD, get)} :
                 /\ psCalls' = Append(psCalls, resp) \o read.calls
                 /\ psRes' = read.res /\ psPc' = "idle"
                 /\ psD' = read.d
    /\ UNCHANGED <<psApi, psOp, psOps>>
    /\ PsFrame

\* The wait runs into its timeout.
PsTimeout ==
    /\ sys = "ps72"
    /\ psPc = "polling"
    /\ psRes' = "error"
    /\ psPc' = "idle"
    /\ UNCHANGED <<psD, psApi, psCalls, psOp, psOps>>
    /\ PsFrame

\* resourceAutomationPowerShell72ModuleRead on the resource in state.
PsRead ==
    /\ sys = "ps72"
    /\ psPc = "idle"
    /\ psOp \in {"create", "update", "removed"}
    /\ psD.id # <<"">>
    /\ \E get \in PsReadAnswers(psApi) :
        \E read \in {PsReadOutcome(psD, get)} :
            /\ psCalls' = read.calls
            /\ psRes' = read.res
            /\ psD' = read.d
    /\ psOp' = "read"
    /\ UNCHANGED <<psApi, psPc, psOps>>
    /\ PsFrame

\* The module is removed outside Terraform.
PsRemovedRemotely ==
    /\ sys = "ps72"
    /\ psPc = "idle"
    /\ psOp \in {"create", "update"}
    /\ psApi.exists
    /\ psApi' = [exists |-> FALSE, isGlobal |-> FALSE]
    /\ psOp' = "removed"
    /\ UNCHANGED <<psD, psCalls, psPc, psRes, psOps>>
    /\ PsFrame

PsNext ==
    PsCreateBegin \/ PsUpdateBegin \/ PsPoll \/ PsTimeout \/ PsRead \/ PsRemovedRemotely

\* The calls of the running or last handler show a poll that reported
\* Succeeded without an error message, after a CreateOrUpdate that went well.
PsSucceededPollAfterPut ==
    \E i, j \in 1..Len(psCalls) :
        /\ i < j
        /\ psCalls[i] = PsPut("200")
        /\ psCalls[j].call = "Poll"
        /\ psCalls[j].answer = "200"
        /\ psCalls[j].props
        /\ psCalls[j].state = "Succeeded"
        /\ psCalls[j].msg = ""

\* A poll that failed, or reported an error message, or reported a state
\* that is neither pending nor Succeeded (Unknown when the properties or the
\* state are missing).
PsBadPoll(c) ==
    /\ c.call = "Poll"
    /\ \/ c.answer # "200"
       \/ ~c.props
       \/ c.msg # ""
       \/ c.state \notin (PsPending \cup {"Succeeded"})

\* C8: Create returns success, and sets the id, only after a poll issued
\* after CreateOrUpdate reported Succeeded with no error message; Update
\* returns success only then; after a poll that failed, reported an error
\* message or reported a state neither pending nor Succeeded, the handler
\* has returned an error, and Create has left the id unset.
C8_SuccessOnlyAfterSucceededPoll ==
    /\ (psOp \in {"create", "update"} /\ psPc = "idle" /\ psRes = "ok")
          => PsSucceededPollAfterPut
    /\ (psOp = "create" /\ psD.id # <<"">>) => PsSucceededPollAfterPut
    /\ (psOp \in {"create", "update"} /\ \E i \in 1..Len(psCalls) : PsBadPoll(psCalls[i]))
          => /\ psPc = "idle"
             /\ psRes = "error"
             /\ psOp = "create" => psD.id = <<"">>

\* Create succeeded and set the id after a pending poll and a Succeeded one.
C8_Witness ==
    /\ psOp = "create"
    /\ psPc = "idle"
    /\ psRes = "ok"
    /\ psD.id = PsId
    /\ Len(psCalls) = 5
    /\ psCalls[3].state = "Creating"
    /\ psCalls[4].state = "Succeeded"

\* C9: Create fails with the import-as-exists error, without calling
\* CreateOrUpdate, exactly when the initial Get found the module and the
\* module is not marked IsGlobal; when the module found is global, or the Get
\* is a 404, Create goes on to CreateOrUpdate.
C9_ImportAsExistsUnlessGlobal ==
    psOp = "create" =>
        /\ psRes = "import_exists"
              <=> (psCalls[1].answer = "200" /\ psCalls[1].global # "true")
        /\ psRes = "import_exists" =>
              \A i \in 1..Len(psCalls) : psCalls[i].call # "CreateOrUpdate"
        /\ (psCalls[1].answer = "404"
            \/ (psCalls[1].answer = "200" /\ psCalls[1].global = "true"))
              => (Len(psCalls) >= 2 /\ psCalls[2].call = "CreateOrUpdate")

\* Create found a global module and went on to CreateOrUpdate.
C9_Witness ==
    /\ psOp = "create"
    /\ psCalls[1].answer = "200"
    /\ psCalls[1].global = "true"
    /\ Len(psCalls) >= 2
    /\ psCalls[2] = PsPut("200")

(***************************************************************************)
(* azurerm_firewall_policy: CreateUpdate and Delete of several resources   *)
(* run concurrently in one provider process.  A handler advances from one  *)
(* API call or lock operation to the next.                                 *)
(***************************************************************************)

MaxFwRuns == 1

FwProcs == {"a", "b"}
FwNames == {"p1", "p2"}

\* The ID the API gives a policy.
FirewallPolicyIdID(name) ==
    <<"">> \o JoinPairs(<<"subscriptions", "resourceGroups", "providers",
                          "firewallPolicies">>,
                        <<<<"sub">>, <<"rg">>, <<"Microsoft.Network">>, <<name>>>>)

\* parse.FirewallPolicyID
FirewallPolicyID(input) == PopOneSegment(ParseAzureResourceID(input), "firewallPolicies")

\* locks.ByName can take the lock of a name when no one holds it.
LocksFree(locks, name) == \A l \in locks : l[1] # name

\* locks.ByName, once it got the lock.
LocksByName(locks, name, p) == locks \cup {<<name, p>>}

\* locks.UnlockByName
LocksUnlockByName(locks, name) == {l \in locks : l[1] # name}

\* A handler that unlocks only where it returns nil.
FwOnReturn_KeptOnError(locks, name, locked, res) ==
    IF locked /\ res = "ok" THEN LocksUnlockByName(locks, name) ELSE locks

\* The locks when a handler returns res: the deferred UnlockByName runs on
\* every return that follows the ByName.
FwOnReturn(locks, name, locked, res) ==
    IF locked THEN LocksUnlockByName(locks, name) ELSE locks

\* The places between ByName and the return.
FwLockedPcs == {"put", "get", "read", "delete", "wait"}

FwInit ==
    /\ fwApi \in SUBSET FwNames
    /\ fwD \in [FwProcs -> {<<"">>} \cup {FirewallPolicyIdID(n) : n \in fwApi}]
    /\ fwPc = [p \in FwProcs |-> "idle"]
    /\ fwOp = [p \in FwProcs |-> "none"]
    /\ fwName = [p \in FwProcs |-> ""]
    /\ fwRes = [p \in FwProcs |-> "none"]
    /\ fwCalls = [p \in FwProcs |-> <<>>]
    /\ fwRuns = [p \in FwProcs |-> 0]
    /\ fwLocks = {}

FwFrame == UNCHANGED <<sys, kmcVars, idVars, cosVars, chVars, hkVars, psVars>>

\* The handler of p returns res.
FwReturn(p, res) ==
    /\ fwPc' = [fwPc EXCEPT ![p] = "idle"]
    /\ fwRes' = [fwRes EXCEPT ![p] = res]
    /\ fwLocks' = FwOnReturn(fwLocks, fwName[p], fwPc[p] \in FwLockedPcs, res)

\* It goes on to the place pc.
FwGoto(p, pc) ==
    /\ fwPc' = [fwPc EXCEPT ![p] = pc]
    /\ UNCHANGED <<fwRes, fwLocks>>

FwCalled(p, call, answer) == fwCalls' = [fwCalls EXCEPT ![p] = Append(@, <<call, answer>>)]

FwGetAnswers(name) == IF name \in fwApi THEN {"200", "err"} ELSE {"404", "err"}

\* resourceFirewallPolicyCreateUpdate starts on a new resource.
FwStartCreate ==
    /\ sys = "firewall"
    /\ \E p \in FwProcs, name \in FwNames :
        /\ fwPc[p] = "idle"
        /\ fwRuns[p] < MaxFwRuns
        /\ fwD[p] = <<"">>
        /\ fwOp' = [fwOp EXCEPT ![p] = "create"]
        /\ fwName' = [fwName EXCEPT ![p] = name]
        /\ fwPc' = [fwPc EXCEPT ![p] = "check"]
        /\ fwRes' = [fwRes EXCEPT ![p] = "running"]
        /\ fwCalls' = [fwCalls EXCEPT ![p] = <<>>]
        /\ fwRuns' = [fwRuns EXCEPT ![p] = @ + 1]
    /\ UNCHANGED <<fwD, fwLocks, fwApi>>
    /\ FwFrame

\* resourceFirewallPolicyCreateUpdate starts on a resource in state: there
\* is no presence check.
FwStartUpdate ==
    /\ sys = "firewall"
    /\ \E p \in FwProcs :
        /\ fwPc[p] = "idle"
        /\ fwRuns[p] < MaxFwRuns
        /\ fwD[p] # <<"">>
        /\ \E id \in {FirewallPolicyID(fwD[p])} :
            /\ ~id.err
            /\ fwName' = [fwName EXCEPT ![p] = id.Name]
        /\ fwOp' = [fwOp EXCEPT ![p] = "update"]
        /\ fwPc' = [fwPc EXCEPT ![p] = "lock"]
        /\ fwRes' = [fwRes EXCEPT ![p] = "running"]
        /\ fwCalls' = [fwCalls EXCEPT ![p] = <<>>]
        /\ fwRuns' = [fwRuns EXCEPT ![p] = @ + 1]
    /\ UNCHANGED <<fwD, fwLocks, fwApi>>
    /\ FwFrame

\* resourceFirewallPolicyDelete starts: the id is parsed.
FwStartDelete ==
    /\ sys = "firewall"
    /\ \E p \in FwProcs :
        /\ fwPc[p] = "idle"
        /\ fwRuns[p] < MaxFwRuns
        /\ fwD[p] # <<"">>
        /\ \E id \in {FirewallPolicyID(fwD[p])} :
            /\ fwName' = [fwName EXCEPT ![p] = id.Name]
            /\ fwPc' = [fwPc EXCEPT ![p] = IF id.err THEN "idle" ELSE "lock"]
            /\ fwRes' = [fwRes EXCEPT ![p] = IF id.err THEN "error" ELSE "running"]
        /\ fwOp' = [fwOp EXCEPT ![p] = "delete"]
        /\ fwCalls' = [fwCalls EXCEPT ![p] = <<>>]
        /\ fwRuns' = [fwRuns EXCEPT ![p] = @ + 1]
    /\ UNCHANGED <<fwD, fwLocks, fwApi>>
    /\ FwFrame

\* The presence check of a new resource.
FwCheck ==
    /\ sys = "firewall"
    /\ \E p \in FwProcs :
        /\ fwPc[p] = "check"
        /\ \E get \in FwGetAnswers(fwName[p]) :
            /\ FwCalled(p, "Get", get)
            /\ IF get = "err" THEN FwReturn(p, "error")
               ELSE IF get = "200" THEN FwReturn(p, "import_exists")
               ELSE FwGoto(p, "lock")
    /\ UNCHANGED <<fwOp, fwName, fwD, fwRuns, fwApi>>
    /\ FwFrame

\* locks.ByName returns.
FwLock ==
    /\ sys = "firewall"
    /\ \E p \in FwProcs :
        /\ fwPc[p] = "lock"
        /\ LocksFree(fwLocks, fwName[p])
        /\ fwLocks' = LocksByName(fwLocks, fwName[p], p)
        /\ fwPc' = [fwPc EXCEPT ![p] = IF fwOp[p] = "delete" THEN "delete" ELSE "put"]
    /\ UNCHANGED <<fwOp, fwName, fwD, fwRes, fwCalls, fwRuns, fwApi>>
    /\ FwFrame

\* client.CreateOrUpdate
FwCreateOrUpdate ==
    /\ sys = "firewall"
    /\ \E p \in FwProcs :
        /\ fwPc[p] = "put"
        /\ \E put \in {"200", "err"} :
            /\ FwCalled(p, "CreateOrUpdate", put)
            /\ IF put = "err"
               THEN FwReturn(p, "error") /\ UNCHANGED fwApi
               ELSE FwGoto(p, "get") /\ fwApi' = fwApi \cup {fwName[p]}
    /\ UNCHANGED <<fwOp, fwName, fwD, fwRuns>>
    /\ FwFrame

\* The Get that follows, and SetId.
FwGet ==
    /\ sys = "firewall"
    /\ \E p \in FwProcs :
        /\ fwPc[p] = "get"
        /\ \E get \in FwGetAnswers(fwName[p]) :
            /\ FwCalled(p, "Get", get)
            /\ IF get # "200"
               THEN FwReturn(p, "error") /\ UNCHANGED fwD
               ELSE /\ FwGoto(p, "read")
                    /\ fwD' = [fwD EXCEPT ![p] = FirewallPolicyIdID(fwName[p])]
    /\ UNCHANGED <<fwOp, fwName, fwRuns, fwApi>>
    /\ FwFrame

\* resourceFirewallPolicyRead, called at the end of CreateUpdate.
FwRead ==
    /\ sys = "firewall"
    /\ \E p \in FwProcs :
        /\ fwPc[p] = "read"
        /\ \E id \in {FirewallPolicyID(fwD[p])} :
            IF id.err
            THEN FwReturn(p, "error") /\ UNCHANGED <<fwD, fwCalls>>
            ELSE \E get \in FwGetAnswers(id.Name) :
                /\ FwCalled(p, "Get", get)
                /\ IF get = "404"
                   THEN FwReturn(p, "ok") /\ fwD' = [fwD EXCEPT ![p] = <<"">>]
                   ELSE IF get = "err"
                   THEN FwReturn(p, "error") /\ UNCHANGED fwD
                   ELSE FwReturn(p, "ok") /\ UNCHANGED fwD
    /\ UNCHANGED <<fwOp, fwName, fwRuns, fwApi>>
    /\ FwFrame

\* client.Delete
FwDelete ==
    /\ sys = "firewall"
    /\ \E p \in FwProcs :
        /\ fwPc[p] = "delete"
        /\ \E del \in {"200", "err"} :
            /\ FwCalled(p, "Delete", del)
            /\ IF del = "err" THEN FwReturn(p, "error") ELSE FwGoto(p, "wait")
    /\ UNCHANGED <<fwOp, fwName, fwD, fwRuns, fwApi>>
    /\ FwFrame

\* future.WaitForCompletionRef: a 404 counts as done.
FwWait ==
    /\ sys = "firewall"
    /\ \E p \in FwProcs :
        /\ fwPc[p] = "wait"
        /\ \E done \in {"200", "404", "err"} :
            /\ FwCalled(p, "WaitForCompletion", done)
            /\ IF done = "err"
               THEN FwReturn(p, "error") /\ UNCHANGED <<fwApi, fwD>>
               ELSE /\ FwReturn(p, "ok")
                    /\ fwApi' = fwApi \ {fwName[p]}
                    /\ fwD' = [fwD EXCEPT ![p] = <<"">>]
    /\ UNCHANGED <<fwOp, fwName, fwRuns>>
    /\ FwFrame

FwNext ==
    \/ FwStartCreate
    \/ FwStartUpdate
    \/ FwStartDelete
    \/ FwCheck
    \/ FwLock
    \/ FwCreateOrUpdate
    \/ FwGet
    \/ FwRead
    \/ FwDelete
    \/ FwWait

\* C10: for one policy name, the sections between ByName and the return
\* (CreateOrUpdate, Get and Read in CreateUpdate; Delete and the wait in
\* Delete) of two concurrent handlers never overlap, a handler in its
\* section holds the lock of its name, and a handler that has returned, with
\* or without an error, holds no lock.
C10_SectionsExcludeLockReleased ==
    /\ \A p, q \in FwProcs :
          (p # q /\ fwPc[p] \in FwLockedPcs /\ fwPc[q] \in FwLockedPcs)
              => fwName[p] # fwName[q]
    /\ \A p \in FwProcs :
          fwPc[p] \in FwLockedPcs => <<fwName[p], p>> \in fwLocks
    /\ \A p \in FwProcs :
          fwPc[p] \notin FwLockedPcs => \A l \in fwLocks : l[2] # p

\* One handler returned an error from its section, and another handler is
\* in its section for the same name while a third party to the name is not:
\* the lock went from the first to the second.
C10_Witness ==
    \E p, q \in FwProcs :
        /\ p # q
        /\ fwName[p] = fwName[q]
        /\ fwPc[p] = "idle"
        /\ fwRes[p] = "error"
        /\ Len(fwCalls[p]) >= 1
        /\ fwCalls[p][Len(fwCalls[p])] = <<"CreateOrUpdate", "err">>
        /\ fwPc[q] = "wait"
        /\ <<fwName[q], q>> \in fwLocks

\* The handler of p has sent CreateOrUpdate.
FwSent(p) ==
    \E i \in 1..Len(fwCalls[p]) : fwCalls[p][i][1] = "CreateOrUpdate"

\* C11: of two concurrent Creates of one policy name that did not exist
\* beforehand, at most one sends CreateOrUpdate: when one has sent it and
\* the API took it, the other has not sent it, and the other, once it
\* returned from a presence check that was answered, returned the
\* import-as-exists error.
C11_AtMostOneCreateSends ==
    \A p, q \in FwProcs :
        (/\ p # q
         /\ fwOp[p] = "create" /\ fwOp[q] = "create"
         /\ fwName[p] = fwName[q]
         /\ <<"CreateOrUpdate", "200">> \in Range(fwCalls[p]))
            => /\ ~FwSent(q)
               /\ (fwPc[q] = "idle" /\ fwCalls[q][1] # <<"Get", "err">>)
                     => fwRes[q] = "import_exists"

\* The variables of a sub-system that a behaviour does not exercise.
IdIdle ==
    /\ idKind = "none"
    /\ idVals = <<>>
    /\ idInput = <<>>
    /\ idEdits = 0
    /\ idOut = IdNoOut

CosIdle ==
    /\ cosCfg = <<>>
    /\ cosD = <<>>
    /\ cosApi = {}
    /\ cosPre = {}
    /\ cosCalls = <<>>
    /\ cosOp = "off"
    /\ cosRes = "none"
    /\ cosSteps = 0

ChIdle ==
    /\ chCfg = <<>>
    /\ chD = <<>>
    /\ chApi = <<>>
    /\ chCalls = <<>>
    /\ chOp = "off"
    /\ chRes = "none"
    /\ chSteps = 0
    /\ chOrigin = "none"

KmcIdle ==
    /\ kmcCfg = <<>>
    /\ kmcD = <<>>
    /\ kmcApi = <<>>
    /\ kmcCluster = FALSE
    /\ kmcSent = <<>>
    /\ kmcCalls = <<>>
    /\ kmcOp = "off"
    /\ kmcRes = "none"

HkIdle ==
    /\ hkCfg = <<>>
    /\ hkOld = <<>>
    /\ hkD = <<>>
    /\ hkApi = <<>>
    /\ hkCalls = <<>>
    /\ hkOp = "off"
    /\ hkRes = "none"
    /\ hkSteps = 0

PsIdle ==
    /\ psD = <<>>
    /\ psApi = <<>>
    /\ psCalls = <<>>
    /\ psPc = "off"
    /\ psOp = "off"
    /\ psRes = "none"
    /\ psOps = 0

FwIdle ==
    /\ fwPc = <<>>
    /\ fwOp = <<>>
    /\ fwName = <<>>
    /\ fwD = <<>>
    /\ fwRes = <<>>
    /\ fwCalls = <<>>
    /\ fwRuns = <<>>
    /\ fwLocks = {}
    /\ fwApi = {}

(***************************************************************************)
(* Specifications: one per sub-system, and their union                     *)
(***************************************************************************)

InitKmc ==
    sys = "kmc" /\ KmcInit /\ IdIdle /\ CosIdle /\ ChIdle /\ HkIdle /\ PsIdle /\ FwIdle
NextKmc == KmcNext
SpecKmc == InitKmc /\ [][NextKmc]_vars

InitIds ==
    sys = "ids" /\ IdInit /\ KmcIdle /\ CosIdle /\ ChIdle /\ HkIdle /\ PsIdle /\ FwIdle
NextIds == IdNext
SpecIds == InitIds /\ [][NextIds]_vars

InitCosmos ==
    sys = "cosmos" /\ CosInit /\ KmcIdle /\ IdIdle /\ ChIdle /\ HkIdle /\ PsIdle /\ FwIdle
NextCosmos == CosNext
SpecCosmos == InitCosmos /\ [][NextCosmos]_vars

InitChaos ==
    sys = "chaos" /\ ChInit /\ KmcIdle /\ IdIdle /\ CosIdle /\ HkIdle /\ PsIdle /\ FwIdle
NextChaos == ChNext
SpecChaos == InitChaos /\ [][NextChaos]_vars

InitHostKeys ==
    sys = "hostkeys" /\ HkInit /\ KmcIdle /\ IdIdle /\ CosIdle /\ ChIdle /\ PsIdle /\ FwIdle
NextHostKeys == HkNext
SpecHostKeys == InitHostKeys /\ [][NextHostKeys]_vars

InitPs72 ==
    sys = "ps72" /\ PsInit /\ KmcIdle /\ IdIdle /\ CosIdle /\ ChIdle /\ HkIdle /\ FwIdle
NextPs72 == PsNext
SpecPs72 == InitPs72 /\ [][NextPs72]_vars

InitFw ==
    sys = "firewall" /\ FwInit /\ KmcIdle /\ IdIdle /\ CosIdle /\ ChIdle /\ HkIdle /\ PsIdle
NextFw == FwNext
SpecFw == InitFw /\ [][NextFw]_vars

Init ==
    InitKmc \/ InitIds \/ InitCosmos \/ InitChaos \/ InitHostKeys \/ InitPs72 \/ InitFw
Next ==
    NextKmc \/ NextIds \/ NextCosmos \/ NextChaos \/ NextHostKeys \/ NextPs72 \/ NextFw
Spec == Init /\ [][Next]_vars
=============================================================================
